---- MODULE Spec2Model ----
(***************************************************************************)
(* mongo-kit-go: the three fluent builders of query.go (QueryBuilder,      *)
(* UpdateBuilder, AggregationBuilder), the Client life cycle of client.go  *)
(* (New, Close, the state-checked operations under the RWMutex, among      *)
(* them WithTransaction), the configuration of config.go, EnsureTimeout    *)
(* of context.go and the ...ByID methods with Repository.ExistsByID.       *)
(*                                                                         *)
(* Go slices are modelled as headers [arr, len, cap] over backing arrays   *)
(* kept on a heap, Go maps as heap objects, so that aliasing between a     *)
(* builder and the values it has handed out is part of the model.          *)
(***************************************************************************)
EXTENDS Integers, Sequences, FiniteSets, TLC

\* ---------------------------------------------------------------- bounds
MaxCalls        == 2   \* QueryBuilder calls per behaviour, all methods
MaxComposeCalls == 3   \* QueryBuilder calls per behaviour, composition
MaxUpdateCalls  == 3   \* UpdateBuilder calls per behaviour
MaxClientCalls  == 3   \* calls made on the Client per behaviour
MaxOptions      == 2   \* Option functions passed to New
MaxSortCalls    == 3   \* QueryBuilder calls per behaviour, sorting
MaxStageCalls   == 3   \* AggregationBuilder calls per behaviour
MaxCtxCalls     == 2   \* EnsureTimeout calls per behaviour
MaxTime         == 2   \* clock ticks per behaviour
MaxIDCalls      == 2   \* ...ByID calls per behaviour
MaxBuildCalls   == 3   \* UpdateBuilder calls per behaviour, Build() included

\* ---------------------------------------------------------------- inputs
Builders   == {1, 2}           \* *QueryBuilder values created by NewQueryBuilder
NilBuilder == 0                \* the nil *QueryBuilder
Keys       == {"a", "b"}       \* field names
Vals       == {1, 2}           \* abstract scalar values
CmpKeys    == {"a"}            \* field of the comparison wrappers
CmpVals    == {1}              \* operands of the comparison wrappers
InLists    == {<<1>>, <<1, 2>>}        \* variadic values of In / NotIn
Refs       == Builders \cup {NilBuilder}
\* variadic []bson.D arguments, given as the builders whose GetFilter()
\* result is passed, and variadic builder arguments
CondArgs    == {<<>>, <<1>>, <<2>>, <<1, 2>>}
BuilderArgs == CondArgs \cup {<<NilBuilder>>, <<1, NilBuilder>>}
\* the same for Or / Nor and OrConditions / NorConditions, which share the
\* bodies of And and AndConditions
FewCondArgs    == {<<>>, <<2, 1>>}
FewBuilderArgs == FewCondArgs \cup {<<NilBuilder>>}
\* arguments of Where: bson.M, bson.D, bson.E and a value of another type
WhereArgs  ==
    {[type |-> "M", es |-> {}],
     [type |-> "M", es |-> {[Key |-> "a", Value |-> 1]}],
     [type |-> "M", es |-> {[Key |-> "a", Value |-> 1],
                            [Key |-> "b", Value |-> 2]}],
     [type |-> "D", es |-> <<>>],
     [type |-> "D", es |-> <<[Key |-> "b", Value |-> 2],
                             [Key |-> "a", Value |-> 1]>>],
     [type |-> "E", es |-> <<[Key |-> "a", Value |-> 2]>>],
     [type |-> "string", es |-> <<>>]}

VARIABLES
    heapE,      \* backing arrays of bson.D slices ([]bson.E)
    heapD,      \* backing arrays of []bson.D slices
    qb,         \* the QueryBuilder objects: filter, sortFields, options
    qbLast,     \* the last QueryBuilder call: receiver, returned builder
    sortLog,    \* (field, ascending) of the Sort calls since the last SortBy
    sortReset,  \* per builder, its latest SortBy and the Sort calls before it
    panicked,   \* a call ended in a run-time panic
    calls,      \* number of QueryBuilder calls made
    qbCall,     \* the last QueryBuilder call: what was called, with what
    condLog,    \* per builder, the entries its calls were asked to add
    heapU,      \* backing arrays of the UpdateBuilder's bson.D
    heapM,      \* the bson.M maps the update document refers to
    update,     \* UpdateBuilder.update, a slice header
    lastWrite,  \* per operator and field, the value of the latest call
    pushLog,    \* per field, the values passed to Push, in call order
    ubCalls,    \* number of UpdateBuilder calls made
    firstUse,   \* the operators addOperator was called for, by first call
    built,      \* a document Build() returned, and what it then denoted
    heapP,      \* backing arrays of the AggregationBuilder's []bson.D
    pipeline,   \* AggregationBuilder.pipeline, a slice header
    abLog,      \* the AggregationBuilder calls made, in call order
    pc,         \* per goroutine, its position in the Client method it runs
    call,       \* per goroutine, the call it runs or ran last
    readers,    \* Client.mu: read locks held, per goroutine
    wHolder,    \* Client.mu: the goroutine whose Lock is pending or held
    closed,     \* Client.closed
    disconnects,    \* invocations of the driver's Disconnect
    closeReturned,  \* number of Close calls that have returned
    clCalls,    \* number of Client calls started
    newIn,      \* New: the arguments cfg and opts
    newOut,     \* New: what it returned and what it did
    contexts,   \* the context.Context values that exist
    now,        \* the clock, in the unit of Config.Timeout
    cfgTimeout,    \* Client.config.Timeout
    ctxLog,     \* the EnsureTimeout calls made, in call order
    idCall,     \* the last call of a ...ByID method
    idCalls     \* number of ...ByID calls made

qbVars  == <<heapE, heapD, qb, qbLast, sortLog, sortReset, panicked, calls,
             qbCall, condLog>>
ubVars  == <<heapU, heapM, update, lastWrite, pushLog, ubCalls, firstUse,
             built>>
clVars  == <<pc, call, readers, wHolder, closed, disconnects, closeReturned,
             clCalls>>
newVars == <<newIn, newOut>>
abVars  == <<heapP, pipeline, abLog>>
ctxVars == <<contexts, now, cfgTimeout, ctxLog>>
idVars  == <<idCall, idCalls>>
auxVars == <<ctxVars, idVars>>
vars == <<qbVars, ubVars, abVars, clVars, newVars, auxVars>>

\* ------------------------------------------------------- Go slices, append
\* bson.D{} / a nil slice: no backing array
EmptySlice == [arr |-> 0, len |-> 0, cap |-> 0]

\* the zero bson.E filling the unused capacity of a backing array
NoValue == [kind |-> "none", m |-> {}, s |-> EmptySlice]
ZeroE   == [Key |-> "", Value |-> NoValue]

\* runtime.growslice for the small slices of 32-byte bson.E met here:
\* the needed length when it exceeds twice the old capacity, else the double
GrowCap(oldcap, need) == IF need > 2 * oldcap THEN need ELSE 2 * oldcap

\* append(s, elems...) on heap h: in place when the capacity allows,
\* otherwise into a fresh, larger array; yields the new heap and header
GoAppend(h, s, elems, zero) ==
    LET need == s.len + Len(elems) IN
    IF Len(elems) = 0 THEN [heap |-> h, slice |-> s]
    ELSE IF need <= s.cap
    THEN [heap  |-> [h EXCEPT ![s.arr] =
                        [i \in 1..s.cap |->
                            IF i > s.len /\ i <= need THEN elems[i - s.len]
                            ELSE h[s.arr][i]]],
          slice |-> [s EXCEPT !.len = need]]
    ELSE LET newcap == GrowCap(s.cap, need)
             fresh  == [i \in 1..newcap |->
                            IF i <= s.len THEN h[s.arr][i]
                            ELSE IF i <= need THEN elems[i - s.len]
                            ELSE zero]
         IN [heap  |-> Append(h, fresh),
             slice |-> [arr |-> Len(h) + 1, len |-> need, cap |-> newcap]]

\* ------------------------------------------------------------ bson values
Scalar(v)     == [kind |-> "scalar", m |-> {<<"", <<v>>>>}, s |-> EmptySlice]
\* bson.M{op: v}; the value is kept as a sequence so that $in lists fit
BsonM1(op, vs) == [kind |-> "M", m |-> {<<op, vs>>}, s |-> EmptySlice]
BsonM2(op1, vs1, op2, vs2) ==
    [kind |-> "M", m |-> {<<op1, vs1>>, <<op2, vs2>>}, s |-> EmptySlice]
\* a []bson.D stored as the value of $and / $or / $nor
Conds(sl)     == [kind |-> "conds", m |-> {}, s |-> sl]
BsonE(k, v)   == [Key |-> k, Value |-> v]

\* ------------------------------------------------------------ QueryBuilder
NoSort == [kind |-> "none", s |-> EmptySlice, spec |-> 0]

NewQueryBuilder ==
    [filter     |-> EmptySlice,
     sortFields |-> EmptySlice,
     options    |-> [limit |-> <<>>, skip |-> <<>>, sort |-> NoSort,
                     projection |-> <<>>]]

\* the part of the state a QueryBuilder method works on
QBState == [hE |-> heapE, hD |-> heapD, qb |-> qb]

\* Filter as a keyed write: an entry that already has the key is overwritten
QB_Filter_overwrite(st, b, key, value) ==
    LET f == st.qb[b].filter
        hit == {i \in 1..f.len : st.hE[f.arr][i].Key = key}
    IN IF hit # {}
       THEN [st EXCEPT !.hE[f.arr][CHOOSE i \in hit : TRUE] = BsonE(key, value)]
       ELSE LET r == GoAppend(st.hE, f, <<BsonE(key, value)>>, ZeroE)
            IN [st EXCEPT !.hE = r.heap, !.qb[b].filter = r.slice]

QB_Filter(st, b, key, value) ==
    LET r == GoAppend(st.hE, st.qb[b].filter, <<BsonE(key, value)>>, ZeroE)
    IN [st EXCEPT !.hE = r.heap, !.qb[b].filter = r.slice]

QB_GetFilter(st, b) == st.qb[b].filter

\* a variadic call f(c1, ..., cn) with explicit arguments: the compiler
\* builds a fresh []bson.D holding the arguments
Variadic(st, conds) ==
    IF Len(conds) = 0 THEN [st |-> st, slice |-> EmptySlice]
    ELSE [st    |-> [st EXCEPT !.hD = Append(st.hD, conds)],
          slice |-> [arr |-> Len(st.hD) + 1, len |-> Len(conds),
                     cap |-> Len(conds)]]

\* And/Or/Nor as a keyed write that keeps the first: a call for an operator
\* key that already has an entry is dropped
QB_Logical_once(st, b, opkey, condSlice) ==
    LET f == st.qb[b].filter
        hit == {i \in 1..f.len : st.hE[f.arr][i].Key = opkey}
    IN IF condSlice.len = 0 \/ hit # {} THEN st
       ELSE LET r == GoAppend(st.hE, f, <<BsonE(opkey, Conds(condSlice))>>,
                              ZeroE)
            IN [st EXCEPT !.hE = r.heap, !.qb[b].filter = r.slice]

\* And/Or/Nor without the test for an empty argument list
QB_Logical_unguarded(st, b, opkey, condSlice) ==
    LET r == GoAppend(st.hE, st.qb[b].filter,
                      <<BsonE(opkey, Conds(condSlice))>>, ZeroE)
    IN [st EXCEPT !.hE = r.heap, !.qb[b].filter = r.slice]

\* And/Or/Nor share one body up to the operator key
QB_Logical(st, b, opkey, condSlice) ==
    IF condSlice.len > 0
    THEN LET r == GoAppend(st.hE, st.qb[b].filter,
                           <<BsonE(opkey, Conds(condSlice))>>, ZeroE)
         IN [st EXCEPT !.hE = r.heap, !.qb[b].filter = r.slice]
    ELSE st

QB_And(st, b, condSlice) == QB_Logical(st, b, "$and", condSlice)
QB_Or(st, b, condSlice)  == QB_Logical(st, b, "$or", condSlice)
QB_Nor(st, b, condSlice) == QB_Logical(st, b, "$nor", condSlice)

\* AndConditions/OrConditions/NorConditions share one body up to the
\* method they delegate to. refs is the variadic builders slice; reading
\* the filter of a nil *QueryBuilder dereferences nil.
DerefsNil(refs) == \E i \in 1..Len(refs) : refs[i] = NilBuilder

\* composition that leaves out the builders without conditions
QB_Conditions_skipempty(st, b, opkey, refs) ==
    LET full == SelectSeq(refs, LAMBDA r : QB_GetFilter(st, r).len > 0)
    IN IF Len(full) = 0 THEN st
       ELSE LET conditions == [i \in 1..Len(full) |-> QB_GetFilter(st, full[i])]
                st1 == [st EXCEPT !.hD = Append(st.hD, conditions)]
                sl  == [arr |-> Len(st.hD) + 1, len |-> Len(full),
                        cap |-> Len(full)]
            IN QB_Logical(st1, b, opkey, sl)

QB_Conditions(st, b, opkey, refs) ==
    IF Len(refs) = 0 THEN st
    ELSE LET conditions == [i \in 1..Len(refs) |-> QB_GetFilter(st, refs[i])]
             st1 == [st EXCEPT !.hD = Append(st.hD, conditions)]
             sl  == [arr |-> Len(st.hD) + 1, len |-> Len(refs),
                     cap |-> Len(refs)]
         IN QB_Logical(st1, b, opkey, sl)

\* Where: a bson.M is ranged over (one append per entry, in the order the
\* map iteration yields, given here as the sequence ord), a bson.D is
\* appended at once, a bson.E as one entry, anything else is ignored
RECURSIVE AppendEach(_, _, _)
AppendEach(st, b, es) ==
    IF Len(es) = 0 THEN st
    ELSE LET r == GoAppend(st.hE, st.qb[b].filter, <<Head(es)>>, ZeroE)
         IN AppendEach([st EXCEPT !.hE = r.heap, !.qb[b].filter = r.slice],
                       b, Tail(es))

\* Where that takes the first entry of a bson.D only
QB_Where_first(st, b, expr, ord) ==
    CASE expr.type = "M" -> AppendEach(st, b, ord)
      [] expr.type \in {"D", "E"} ->
            LET r == GoAppend(st.hE, st.qb[b].filter,
                              IF Len(expr.es) = 0 THEN <<>>
                              ELSE <<expr.es[1]>>, ZeroE)
            IN [st EXCEPT !.hE = r.heap, !.qb[b].filter = r.slice]
      [] OTHER -> st

QB_Where(st, b, expr, ord) ==
    CASE expr.type = "M" -> AppendEach(st, b, ord)
      [] expr.type = "D" ->
            LET r == GoAppend(st.hE, st.qb[b].filter, expr.es, ZeroE)
            IN [st EXCEPT !.hE = r.heap, !.qb[b].filter = r.slice]
      [] expr.type = "E" ->
            LET r == GoAppend(st.hE, st.qb[b].filter, expr.es, ZeroE)
            IN [st EXCEPT !.hE = r.heap, !.qb[b].filter = r.slice]
      [] OTHER -> st

\* Sort that hands only the newest key to SetSort
QB_Sort_lastonly(st, b, field, ascending) ==
    LET order == IF ~ascending THEN -1 ELSE 1
        r == GoAppend(st.hE, st.qb[b].sortFields,
                      <<BsonE(field, Scalar(order))>>, ZeroE)
        o == GoAppend(r.heap, EmptySlice, <<BsonE(field, Scalar(order))>>, ZeroE)
    IN [st EXCEPT !.hE = o.heap,
                  !.qb[b].sortFields = r.slice,
                  !.qb[b].options.sort =
                        [kind |-> "D", s |-> o.slice, spec |-> 0]]

QB_Sort(st, b, field, ascending) ==
    LET order == IF ~ascending THEN -1 ELSE 1
        r == GoAppend(st.hE, st.qb[b].sortFields,
                      <<BsonE(field, Scalar(order))>>, ZeroE)
    IN [st EXCEPT !.hE = r.heap,
                  !.qb[b].sortFields = r.slice,
                  !.qb[b].options.sort =
                        [kind |-> "D", s |-> r.slice, spec |-> 0]]

\* SortBy that sets the option and leaves the accumulated fields alone
QB_SortBy_keep(st, b, sort) ==
    [st EXCEPT !.qb[b].options.sort =
                        [kind |-> "custom", s |-> EmptySlice, spec |-> sort]]

QB_SortBy(st, b, sort) ==
    [st EXCEPT !.qb[b].sortFields = EmptySlice,
               !.qb[b].options.sort =
                        [kind |-> "custom", s |-> EmptySlice, spec |-> sort]]

QB_Limit(st, b, limit) == [st EXCEPT !.qb[b].options.limit = <<limit>>]
QB_Skip(st, b, skip)   == [st EXCEPT !.qb[b].options.skip = <<skip>>]
QB_Project(st, b, projection) ==
    [st EXCEPT !.qb[b].options.projection = <<projection>>]

\* Build returns the filter header and the options pointer
QB_Build(st, b) == [filter |-> st.qb[b].filter, options |-> b]

\* ----------------------------------------------------------- UpdateBuilder
Operators == {"$set", "$unset", "$inc", "$mul", "$min", "$max", "$push",
              "$pull", "$addToSet", "$pop", "$currentDate", "$rename"}

\* values carry their Go type
IntV(n)  == <<"int", <<n>>, "", FALSE>>
StrV(x)  == <<"string", <<>>, x, FALSE>>
BoolV(x) == <<"bool", <<>>, "", x>>
EachV(vs) == <<"$each", vs, "", FALSE>>
NoWrite  == <<"none", <<>>, "", FALSE>>

NewUpdateBuilder == EmptySlice

\* an entry of the update document: the operator and a reference to its map
ZeroU == [Key |-> "", isM |-> FALSE, ref |-> 0]

UBState == [hU |-> heapU, hM |-> heapM, update |-> update]

\* m[key] = value on a Go map
MapSet(m, key, value) ==
    [k \in DOMAIN m \cup {key} |-> IF k = key THEN value ELSE m[k]]

\* bson.M{key: value}
MapLit(key, value) == [k \in {key} |-> value]

MinOf(S) == CHOOSE x \in S : \A y \in S : x <= y

\* addOperator that does not search for the operator
UB_addOperator_append(st, operator, key, value) ==
    LET r == GoAppend(st.hU, st.update,
                      <<[Key |-> operator, isM |-> TRUE,
                         ref |-> Len(st.hM) + 1]>>, ZeroU)
    IN [hU |-> r.heap, hM |-> Append(st.hM, MapLit(key, value)),
        update |-> r.slice]

\* addOperator that replaces the operator's map instead of adding to it
UB_addOperator_replace(st, operator, key, value) ==
    LET found == {i \in 1..st.update.len :
                      st.hU[st.update.arr][i].Key = operator}
    IN IF found # {}
       THEN [st EXCEPT !.hM = Append(st.hM, MapLit(key, value)),
                       !.hU[st.update.arr][MinOf(found)] =
                            [Key |-> operator, isM |-> TRUE,
                             ref |-> Len(st.hM) + 1]]
       ELSE UB_addOperator_append(st, operator, key, value)

\* addOperator that writes into the first entry whatever its operator
UB_addOperator_first(st, operator, key, value) ==
    IF st.update.len > 0
    THEN [st EXCEPT !.hM[st.hU[st.update.arr][1].ref] = MapSet(@, key, value)]
    ELSE UB_addOperator_append(st, operator, key, value)

\* addOperator that moves the entry of an operator it is called for again
\* to the end of the document
UB_addOperator_move(st, operator, key, value) ==
    LET found == {i \in 1..st.update.len :
                      st.hU[st.update.arr][i].Key = operator}
    IN IF found # {}
       THEN LET i    == MinOf(found)
                old  == st.hU[st.update.arr]
                elem == old[i]
                moved == SubSeq(old, 1, i - 1)
                         \o SubSeq(old, i + 1, st.update.len) \o <<elem>>
            IN [hU |-> Append(st.hU, moved),
                hM |-> [st.hM EXCEPT ![elem.ref] = MapSet(@, key, value)],
                update |-> [arr |-> Len(st.hU) + 1, len |-> st.update.len,
                            cap |-> st.update.len]]
       ELSE UB_addOperator_append(st, operator, key, value)

UB_addOperator(st, operator, key, value) ==
    LET found == {i \in 1..st.update.len :
                      st.hU[st.update.arr][i].Key = operator}
    IN IF found # {}
       THEN LET i    == MinOf(found)
                elem == st.hU[st.update.arr][i]
            IN IF elem.isM
               THEN \* m[key] = value; ub.update[i].Value = m
                    [st EXCEPT !.hM[elem.ref] = MapSet(@, key, value),
                               !.hU[st.update.arr][i] =
                                    [Key |-> elem.Key, isM |-> TRUE,
                                     ref |-> elem.ref]]
               ELSE \* ub.update[i].Value = bson.M{key: value}
                    [st EXCEPT !.hM = Append(st.hM, MapLit(key, value)),
                               !.hU[st.update.arr][i] =
                                    [Key |-> elem.Key, isM |-> TRUE,
                                     ref |-> Len(st.hM) + 1]]
       ELSE LET r == GoAppend(st.hU, st.update,
                              <<[Key |-> operator, isM |-> TRUE,
                                 ref |-> Len(st.hM) + 1]>>, ZeroU)
            IN [hU |-> r.heap, hM |-> Append(st.hM, MapLit(key, value)),
                update |-> r.slice]

\* Unset: one addOperator("$unset", key, "") per key
RECURSIVE UB_UnsetKeys(_, _)
UB_UnsetKeys(st, keys) ==
    IF Len(keys) = 0 THEN st
    ELSE UB_UnsetKeys(UB_addOperator(st, "$unset", Head(keys), StrV("")),
                      Tail(keys))

UB_Build(st) == st.update

UBReturn(st) ==
    /\ heapU' = st.hU
    /\ heapM' = st.hM
    /\ update' = st.update
    /\ ubCalls' = ubCalls + 1
    /\ UNCHANGED built
    /\ UNCHANGED <<qbVars, abVars, clVars, newVars, auxVars>>

\* the order of first use, after a call of addOperator for operator
FirstUsed(operator) ==
    IF \E i \in DOMAIN firstUse : firstUse[i] = operator
    THEN firstUse ELSE Append(firstUse, operator)

Logged(operator, key, value) ==
    /\ lastWrite' = [lastWrite EXCEPT ![operator] = MapSet(@, key, value)]
    /\ firstUse' = FirstUsed(operator)

\* the methods that pass their arguments on unchanged
UBCall(operator, key, value) ==
    /\ UBReturn(UB_addOperator(UBState, operator, key, value))
    /\ Logged(operator, key, value)
    /\ UNCHANGED pushLog

Set(key, value)      == UBCall("$set", key, value)
Inc(key, value)      == UBCall("$inc", key, value)
Mul(key, value)      == UBCall("$mul", key, value)
Min(key, value)      == UBCall("$min", key, value)
Max(key, value)      == UBCall("$max", key, value)
Pull(key, value)     == UBCall("$pull", key, value)
AddToSet(key, value) == UBCall("$addToSet", key, value)
Rename(oldName, newName) == UBCall("$rename", oldName, StrV(newName))
CurrentDate(key)     == UBCall("$currentDate", key, BoolV(TRUE))

Push(key, value) ==
    /\ UBReturn(UB_addOperator(UBState, "$push", key, value))
    /\ Logged("$push", key, value)
    /\ pushLog' = [pushLog EXCEPT ![key] = Append(@, value)]

Pop(key, first) ==
    LET position == IF first THEN -1 ELSE 1
    IN UBCall("$pop", key, IntV(position))

RECURSIVE LoggedUnset(_, _)
LoggedUnset(lw, keys) ==
    IF Len(keys) = 0 THEN lw
    ELSE LoggedUnset([lw EXCEPT !["$unset"] = MapSet(@, Head(keys), StrV(""))],
                     Tail(keys))

Unset(keys) ==
    /\ UBReturn(UB_UnsetKeys(UBState, keys))
    /\ lastWrite' = LoggedUnset(lastWrite, keys)
    /\ firstUse' = (IF Len(keys) = 0 THEN firstUse ELSE FirstUsed("$unset"))
    /\ UNCHANGED pushLog

UnsetArgs == {<<>>, <<"a">>, <<"b", "a">>}

\* what a bson.D header denotes: per entry the operator and the contents
\* of the map its value refers to
DocOf(hU, hM, doc) ==
    [i \in 1..doc.len |->
        LET e == hU[doc.arr][i] IN
        [Key |-> e.Key, isM |-> e.isM, m |-> hM[e.ref]]]

NoBuilt == [taken |-> FALSE, doc |-> EmptySlice, was |-> <<>>]

\* doc := ub.Build(), kept by the caller while it goes on calling ub
BuildUpdate ==
    /\ built' = [taken |-> TRUE, doc |-> UB_Build(UBState),
                 was |-> DocOf(heapU, heapM, UB_Build(UBState))]
    /\ ubCalls' = ubCalls + 1
    /\ UNCHANGED <<heapU, heapM, update, lastWrite, pushLog, firstUse>>
    /\ UNCHANGED <<qbVars, abVars, clVars, newVars, auxVars>>

\* ------------------------------------------------------ AggregationBuilder
\* a stage is a bson.D, a sequence of entries; the value of an entry is a
\* scalar of some Go type or a bson.M, kept as a set of <<key, value>>
AnyV(type, x) == [kind |-> type, v |-> <<x>>, m |-> {}]
MapV(m)       == [kind |-> "M", v |-> <<>>, m |-> m]

\* inputs: the fields of Group, the stages passed to AddStage
GroupFields == {{}, {<<"total", 1>>}, {<<"_id", 2>>, <<"total", 1>>}}
StageArgs ==
    {<<>>,
     <<BsonE("$count", AnyV("string", 1))>>,
     <<BsonE("$match", AnyV("any", 1)), BsonE("$limit", AnyV("int64", 1))>>}

\* []bson.D{}
NewAggregationBuilder == EmptySlice

\* the nil bson.D filling the unused capacity of a backing array
ZeroStage == <<>>

\* m[key] = value on a bson.M
MapPut(m, key, value) == {p \in m : p[1] # key} \cup {<<key, value>>}

\* maps.Copy(dst, src): for k, v := range src { dst[k] = v }
RECURSIVE MapsCopy(_, _)
MapsCopy(dst, src) ==
    IF src = {} THEN dst
    ELSE LET p == CHOOSE q \in src : TRUE
         IN MapsCopy(MapPut(dst, p[1], p[2]), src \ {p})

\* the group document with the id written after the fields
GroupDoc_idlast(id, fields) == MapPut(MapsCopy({}, fields), "_id", id)

\* groupDoc := bson.M{"_id": id}; maps.Copy(groupDoc, fields)
GroupDoc(id, fields) == MapsCopy({<<"_id", id>>}, fields)

\* the stage each method builds
MatchStage(filter)       == <<BsonE("$match", AnyV("any", filter))>>
GroupStage(id, fields)   == <<BsonE("$group", MapV(GroupDoc(id, fields)))>>
SortStage(sort)          == <<BsonE("$sort", AnyV("any", sort))>>
LimitStage(limit)        == <<BsonE("$limit", AnyV("int64", limit))>>
SkipStage(skip)          == <<BsonE("$skip", AnyV("int64", skip))>>
ProjectStage(projection) == <<BsonE("$project", AnyV("any", projection))>>
UnwindStage(path)        == <<BsonE("$unwind", AnyV("string", path))>>
LookupStage(from, localField, foreignField, as) ==
    <<BsonE("$lookup", MapV({<<"from", from>>, <<"localField", localField>>,
                             <<"foreignField", foreignField>>, <<"as", as>>}))>>

ABState == [hP |-> heapP, pipeline |-> pipeline]

\* append that puts the stage in the place of an earlier stage with the
\* same first key
AB_Append_merge(st, stage) ==
    LET p == st.pipeline
        hit == {i \in 1..p.len :
                    /\ Len(stage) > 0
                    /\ Len(st.hP[p.arr][i]) > 0
                    /\ st.hP[p.arr][i][1].Key = stage[1].Key}
    IN IF hit # {}
       THEN [st EXCEPT !.hP[p.arr][CHOOSE i \in hit : TRUE] = stage]
       ELSE LET r == GoAppend(st.hP, p, <<stage>>, ZeroStage)
            IN [hP |-> r.heap, pipeline |-> r.slice]

\* ab.pipeline = append(ab.pipeline, stage)
AB_Append(st, stage) ==
    LET r == GoAppend(st.hP, st.pipeline, <<stage>>, ZeroStage)
    IN [hP |-> r.heap, pipeline |-> r.slice]

\* Build returns the pipeline header
AB_Build(st) == st.pipeline

\* a call of a stage method: the method, its arguments, the stage it built
AB_Call(method, args, fields, stage) ==
    /\ LET st == AB_Append(ABState, stage)
       IN /\ heapP' = st.hP
          /\ pipeline' = st.pipeline
    /\ abLog' = Append(abLog, [method |-> method, args |-> args,
                               fields |-> fields, stage |-> stage])
    /\ UNCHANGED <<qbVars, ubVars, clVars, newVars, auxVars>>

AB_Match(filter)   == AB_Call("Match", <<filter>>, {}, MatchStage(filter))
AB_Group(id, fields) ==
    AB_Call("Group", <<id>>, fields, GroupStage(id, fields))
AB_Sort(sort)      == AB_Call("Sort", <<sort>>, {}, SortStage(sort))
AB_Limit(limit)    == AB_Call("Limit", <<limit>>, {}, LimitStage(limit))
AB_Skip(skip)      == AB_Call("Skip", <<skip>>, {}, SkipStage(skip))
AB_Project(projection) ==
    AB_Call("Project", <<projection>>, {}, ProjectStage(projection))
AB_Unwind(path)    == AB_Call("Unwind", <<path>>, {}, UnwindStage(path))
AB_Lookup(from, localField, foreignField, as) ==
    AB_Call("Lookup", <<from, localField, foreignField, as>>, {},
            LookupStage(from, localField, foreignField, as))
AB_AddStage(stage) == AB_Call("AddStage", <<>>, {}, stage)

\* ------------------------------------------------------------------ Client
Threads == {1, 2, 3}           \* goroutines sharing one *Client
NoThread == 0
DbNames == {"", "otherdb"}     \* the database argument of DropDatabase
\* the operations that hold the read lock, check the state and call the
\* driver once (InsertOne ... Watch, Ping, StartSession, UseSession)
CheckedOps == {"Ping", "InsertOne"}

NoCall == [op |-> "none", db |-> "", afterClose |-> FALSE, invoked |-> FALSE,
           disconnected |-> FALSE, result |-> "none"]

\* sync.RWMutex: RLock waits while a Lock is pending or held; Lock first
\* becomes pending, shutting out new readers, then waits for the readers
\* that hold the lock
RLockFree == wHolder = NoThread
NoReaders == \A u \in Threads : readers[u] = 0
RLock(t)   == readers' = [readers EXCEPT ![t] = @ + 1]
RUnlock(t) == readers' = [readers EXCEPT ![t] = @ - 1]

Begin(t, op, db) ==
    /\ pc[t] = "idle"
    /\ clCalls < MaxClientCalls
    /\ clCalls' = clCalls + 1
    /\ call' = [call EXCEPT ![t] = [op |-> op, db |-> db,
                                    afterClose |-> closeReturned > 0,
                                    invoked |-> FALSE, disconnected |-> FALSE,
                                    result |-> "pending"]]

Returns(t, r) ==
    /\ pc' = [pc EXCEPT ![t] = "idle"]
    /\ call' = [call EXCEPT ![t].result = r]

\* Close -------------------------------------------------------------
CallClose(t) ==
    /\ Begin(t, "Close", "")
    /\ pc' = [pc EXCEPT ![t] = "Close.Lock"]
    /\ UNCHANGED <<readers, wHolder, closed, disconnects, closeReturned>>
    /\ UNCHANGED <<qbVars, ubVars, abVars, newVars, auxVars>>

\* c.mu.Lock(), first half: the Lock is pending
Close_Lock(t) ==
    /\ pc[t] = "Close.Lock"
    /\ wHolder = NoThread
    /\ wHolder' = t
    /\ pc' = [pc EXCEPT ![t] = "Close.Wait"]
    /\ UNCHANGED <<call, readers, closed, disconnects, closeReturned, clCalls>>
    /\ UNCHANGED <<qbVars, ubVars, abVars, newVars, auxVars>>

\* a Lock that does not wait for the readers
Close_Locked_nowait(t) ==
    /\ pc[t] = "Close.Wait"
    /\ pc' = [pc EXCEPT ![t] = "Close.Check"]
    /\ UNCHANGED <<call, readers, wHolder, closed, disconnects, closeReturned,
                   clCalls>>
    /\ UNCHANGED <<qbVars, ubVars, abVars, newVars, auxVars>>

\* c.mu.Lock(), second half: the readers have left
Close_Locked(t) ==
    /\ pc[t] = "Close.Wait"
    /\ NoReaders
    /\ pc' = [pc EXCEPT ![t] = "Close.Check"]
    /\ UNCHANGED <<call, readers, wHolder, closed, disconnects, closeReturned,
                   clCalls>>
    /\ UNCHANGED <<qbVars, ubVars, abVars, newVars, auxVars>>

\* Close that disconnects whatever c.closed says
Close_Check_always(t) ==
    /\ pc[t] = "Close.Check"
    /\ closed' = TRUE
    /\ disconnects' = disconnects + 1
    /\ call' = [call EXCEPT ![t].disconnected = TRUE]
    /\ pc' = [pc EXCEPT ![t] = "Close.Disconnect"]
    /\ UNCHANGED <<wHolder, closeReturned>>
    /\ UNCHANGED <<readers, clCalls, qbVars, ubVars, abVars,
                 newVars, auxVars>>

\* Close that forgets c.closed = true
Close_Check_noflag(t) ==
    /\ pc[t] = "Close.Check"
    /\ IF closed
       THEN /\ Returns(t, "nil")
            /\ wHolder' = NoThread
            /\ closeReturned' = closeReturned + 1
            /\ UNCHANGED <<closed, disconnects>>
       ELSE /\ UNCHANGED closed
            /\ disconnects' = disconnects + 1
            /\ call' = [call EXCEPT ![t].disconnected = TRUE]
            /\ pc' = [pc EXCEPT ![t] = "Close.Disconnect"]
            /\ UNCHANGED <<wHolder, closeReturned>>
    /\ UNCHANGED <<readers, clCalls, qbVars, ubVars, abVars,
                 newVars, auxVars>>

\* if c.closed { return nil }; c.closed = true; c.client.Disconnect(ctx) is
\* invoked
Close_Check(t) ==
    /\ pc[t] = "Close.Check"
    /\ IF closed
       THEN /\ Returns(t, "nil")
            /\ wHolder' = NoThread
            /\ closeReturned' = closeReturned + 1
            /\ UNCHANGED <<closed, disconnects>>
       ELSE /\ closed' = TRUE
            /\ disconnects' = disconnects + 1
            /\ call' = [call EXCEPT ![t].disconnected = TRUE]
            /\ pc' = [pc EXCEPT ![t] = "Close.Disconnect"]
            /\ UNCHANGED <<wHolder, closeReturned>>
    /\ UNCHANGED <<readers, clCalls, qbVars, ubVars, abVars,
                 newVars, auxVars>>

\* Disconnect returns err; Close returns it, the deferred Unlock runs
Close_Return(t, err) ==
    /\ pc[t] = "Close.Disconnect"
    /\ Returns(t, err)
    /\ wHolder' = NoThread
    /\ closeReturned' = closeReturned + 1
    /\ UNCHANGED <<readers, closed, disconnects, clCalls>>
    /\ UNCHANGED <<qbVars, ubVars, abVars, newVars, auxVars>>

\* the state-checked operations ----------------------------------------
CallOp(t, op) ==
    /\ Begin(t, op, "")
    /\ pc' = [pc EXCEPT ![t] = "Op.RLock"]
    /\ UNCHANGED <<readers, wHolder, closed, disconnects, closeReturned>>
    /\ UNCHANGED <<qbVars, ubVars, abVars, newVars, auxVars>>

Op_RLock(t) ==
    /\ pc[t] = "Op.RLock"
    /\ RLockFree
    /\ RLock(t)
    /\ pc' = [pc EXCEPT ![t] = "Op.Check"]
    /\ UNCHANGED <<call, wHolder, closed, disconnects, closeReturned, clCalls>>
    /\ UNCHANGED <<qbVars, ubVars, abVars, newVars, auxVars>>

checkState == IF closed THEN "ErrClientClosed" ELSE "nil"

\* an operation that calls the driver without looking at c.closed
Op_Check_unchecked(t) ==
    /\ pc[t] = "Op.Check"
    /\ call' = [call EXCEPT ![t].invoked = TRUE]
    /\ pc' = [pc EXCEPT ![t] = "Op.Driver"]
    /\ UNCHANGED readers
    /\ UNCHANGED <<wHolder, closed, disconnects, closeReturned, clCalls>>
    /\ UNCHANGED <<qbVars, ubVars, abVars, newVars, auxVars>>

\* if err := c.checkState(); err != nil { return err }; the driver is called
Op_Check(t) ==
    /\ pc[t] = "Op.Check"
    /\ IF checkState # "nil"
       THEN /\ Returns(t, checkState)
            /\ RUnlock(t)
       ELSE /\ call' = [call EXCEPT ![t].invoked = TRUE]
            /\ pc' = [pc EXCEPT ![t] = "Op.Driver"]
            /\ UNCHANGED readers
    /\ UNCHANGED <<wHolder, closed, disconnects, closeReturned, clCalls>>
    /\ UNCHANGED <<qbVars, ubVars, abVars, newVars, auxVars>>

\* the driver call returns; its error is wrapped in an OperationError
Op_Return(t, r) ==
    /\ pc[t] = "Op.Driver"
    /\ Returns(t, r)
    /\ RUnlock(t)
    /\ UNCHANGED <<wHolder, closed, disconnects, closeReturned, clCalls>>
    /\ UNCHANGED <<qbVars, ubVars, abVars, newVars, auxVars>>

\* DropDatabase ------------------------------------------------------
CallDropDatabase(t, database) ==
    /\ Begin(t, "DropDatabase", database)
    /\ pc' = [pc EXCEPT ![t] = "Drop.RLock"]
    /\ UNCHANGED <<readers, wHolder, closed, disconnects, closeReturned>>
    /\ UNCHANGED <<qbVars, ubVars, abVars, newVars, auxVars>>

Drop_RLock(t) ==
    /\ pc[t] = "Drop.RLock"
    /\ RLockFree
    /\ RLock(t)
    /\ pc' = [pc EXCEPT ![t] = "Drop.Check"]
    /\ UNCHANGED <<call, wHolder, closed, disconnects, closeReturned, clCalls>>
    /\ UNCHANGED <<qbVars, ubVars, abVars, newVars, auxVars>>

\* checkState, then db := c.GetDatabase(database): the default database is
\* returned at once, any other name goes through GetDatabase's own RLock
Drop_Check(t) ==
    /\ pc[t] = "Drop.Check"
    /\ IF checkState # "nil"
       THEN /\ Returns(t, checkState)
            /\ RUnlock(t)
       ELSE /\ UNCHANGED readers
            /\ IF call[t].db = ""
               THEN /\ pc' = [pc EXCEPT ![t] = "Drop.Driver"]
                    /\ call' = [call EXCEPT ![t].invoked = TRUE]
               ELSE /\ pc' = [pc EXCEPT ![t] = "GetDatabase.RLock"]
                    /\ UNCHANGED call
    /\ UNCHANGED <<wHolder, closed, disconnects, closeReturned, clCalls>>
    /\ UNCHANGED <<qbVars, ubVars, abVars, newVars, auxVars>>

\* GetDatabase(name), name # "": c.mu.RLock()
GetDatabase_RLock(t) ==
    /\ pc[t] = "GetDatabase.RLock"
    /\ RLockFree
    /\ RLock(t)
    /\ pc' = [pc EXCEPT ![t] = "GetDatabase.Return"]
    /\ UNCHANGED <<call, wHolder, closed, disconnects, closeReturned, clCalls>>
    /\ UNCHANGED <<qbVars, ubVars, abVars, newVars, auxVars>>

\* return c.client.Database(name), the deferred RUnlock runs; back in
\* DropDatabase db.Drop(ctx) is called
GetDatabase_Return(t) ==
    /\ pc[t] = "GetDatabase.Return"
    /\ RUnlock(t)
    /\ pc' = [pc EXCEPT ![t] = "Drop.Driver"]
    /\ call' = [call EXCEPT ![t].invoked = TRUE]
    /\ UNCHANGED <<wHolder, closed, disconnects, closeReturned, clCalls>>
    /\ UNCHANGED <<qbVars, ubVars, abVars, newVars, auxVars>>

Drop_Return(t, r) ==
    /\ pc[t] = "Drop.Driver"
    /\ Returns(t, r)
    /\ RUnlock(t)
    /\ UNCHANGED <<wHolder, closed, disconnects, closeReturned, clCalls>>
    /\ UNCHANGED <<qbVars, ubVars, abVars, newVars, auxVars>>

\* WithTransaction ---------------------------------------------------
\* The callback fn is the one of the test suite: it calls InsertOne on the
\* same Client and returns its error.
CallWithTransaction(t) ==
    /\ Begin(t, "WithTransaction", "")
    /\ pc' = [pc EXCEPT ![t] = "Tx.RLock"]
    /\ UNCHANGED <<readers, wHolder, closed, disconnects, closeReturned>>
    /\ UNCHANGED <<qbVars, ubVars, abVars, newVars, auxVars>>

Tx_RLock(t) ==
    /\ pc[t] = "Tx.RLock"
    /\ RLockFree
    /\ RLock(t)
    /\ pc' = [pc EXCEPT ![t] = "Tx.Check"]
    /\ UNCHANGED <<call, wHolder, closed, disconnects, closeReturned, clCalls>>
    /\ UNCHANGED <<qbVars, ubVars, abVars, newVars, auxVars>>

\* checkState, c.client.StartSession(), then session.WithTransaction runs
\* the callback, which calls c.InsertOne
Tx_Check(t, sessionOk) ==
    /\ pc[t] = "Tx.Check"
    /\ IF checkState # "nil"
       THEN /\ Returns(t, checkState)
            /\ RUnlock(t)
       ELSE IF ~sessionOk
       THEN /\ pc' = [pc EXCEPT ![t] = "idle"]
            /\ call' = [call EXCEPT ![t].invoked = TRUE,
                                    ![t].result = "OperationError"]
            /\ RUnlock(t)
       ELSE /\ call' = [call EXCEPT ![t].invoked = TRUE]
            /\ pc' = [pc EXCEPT ![t] = "Tx.Insert.RLock"]
            /\ UNCHANGED readers
    /\ UNCHANGED <<wHolder, closed, disconnects, closeReturned, clCalls>>
    /\ UNCHANGED <<qbVars, ubVars, abVars, newVars, auxVars>>

\* InsertOne inside the callback: c.mu.RLock()
Tx_Insert_RLock(t) ==
    /\ pc[t] = "Tx.Insert.RLock"
    /\ RLockFree
    /\ RLock(t)
    /\ pc' = [pc EXCEPT ![t] = "Tx.Insert.Check"]
    /\ UNCHANGED <<call, wHolder, closed, disconnects, closeReturned, clCalls>>
    /\ UNCHANGED <<qbVars, ubVars, abVars, newVars, auxVars>>

\* InsertOne inside the callback: checkState; on nil coll.InsertOne is
\* called, else InsertOne returns, the callback returns its error and the
\* transaction is aborted
Tx_Insert_Check(t) ==
    /\ pc[t] = "Tx.Insert.Check"
    /\ IF checkState # "nil"
       THEN /\ RUnlock(t)
            /\ pc' = [pc EXCEPT ![t] = "Tx.End"]
       ELSE /\ UNCHANGED readers
            /\ pc' = [pc EXCEPT ![t] = "Tx.Insert.Driver"]
    /\ UNCHANGED <<call, wHolder, closed, disconnects, closeReturned, clCalls>>
    /\ UNCHANGED <<qbVars, ubVars, abVars, newVars, auxVars>>

\* coll.InsertOne returns, InsertOne's deferred RUnlock runs, fn returns
Tx_Insert_Return(t) ==
    /\ pc[t] = "Tx.Insert.Driver"
    /\ RUnlock(t)
    /\ pc' = [pc EXCEPT ![t] = "Tx.End"]
    /\ UNCHANGED <<call, wHolder, closed, disconnects, closeReturned, clCalls>>
    /\ UNCHANGED <<qbVars, ubVars, abVars, newVars, auxVars>>

\* session.WithTransaction returns (commit or abort); WithTransaction
\* returns, the deferred EndSession and RUnlock run
Tx_Return(t, r) ==
    /\ pc[t] = "Tx.End"
    /\ Returns(t, r)
    /\ RUnlock(t)
    /\ UNCHANGED <<wHolder, closed, disconnects, closeReturned, clCalls>>
    /\ UNCHANGED <<qbVars, ubVars, abVars, newVars, auxVars>>

\* what a goroutine inside a call does next
Step(t) ==
    \/ Close_Lock(t)
    \/ Close_Locked(t)
    \/ Close_Check(t)
    \/ \E err \in {"nil", "error"} : Close_Return(t, err)
    \/ Op_RLock(t)
    \/ Op_Check(t)
    \/ \E r \in {"nil", "OperationError"} : Op_Return(t, r)
    \/ Drop_RLock(t)
    \/ Drop_Check(t)
    \/ GetDatabase_RLock(t)
    \/ GetDatabase_Return(t)
    \/ \E r \in {"nil", "OperationError"} : Drop_Return(t, r)
    \/ Tx_RLock(t)
    \/ \E sessionOk \in BOOLEAN : Tx_Check(t, sessionOk)
    \/ Tx_Insert_RLock(t)
    \/ Tx_Insert_Check(t)
    \/ Tx_Insert_Return(t)
    \/ \E r \in {"nil", "OperationError"} : Tx_Return(t, r)

\* the steps of Close and of WithTransaction alone
CloseStep(t) ==
    \/ Close_Lock(t)
    \/ Close_Locked(t)
    \/ Close_Check(t)
    \/ \E err \in {"nil", "error"} : Close_Return(t, err)

TxStep(t) ==
    \/ Tx_RLock(t)
    \/ \E sessionOk \in BOOLEAN : Tx_Check(t, sessionOk)
    \/ Tx_Insert_RLock(t)
    \/ Tx_Insert_Check(t)
    \/ Tx_Insert_Return(t)
    \/ \E r \in {"nil", "OperationError"} : Tx_Return(t, r)

NextTx ==
    \E t \in Threads :
        \/ CallClose(t)
        \/ CallWithTransaction(t)
        \/ CloseStep(t)
        \/ TxStep(t)

NextClient ==
    \E t \in Threads :
        \/ CallClose(t)
        \/ \E op \in CheckedOps : CallOp(t, op)
        \/ \E database \in DbNames : CallDropDatabase(t, database)
        \/ CallWithTransaction(t)
        \/ Step(t)

InitClient ==
    /\ pc = [t \in Threads |-> "idle"]
    /\ call = [t \in Threads |-> NoCall]
    /\ readers = [t \in Threads |-> 0]
    /\ wHolder = NoThread
    /\ closed = FALSE
    /\ disconnects = 0
    /\ closeReturned = 0
    /\ clCalls = 0

\* --------------------------------------------------------------- Config, New
\* *options.ClientOptions: nil, or the settings that were made on it
NilClientOptions ==
    [isNil |-> TRUE, uri |-> "", MaxPoolSize |-> <<>>, RetryWrites |-> <<>>,
     RetryReads |-> <<>>]
\* options.Client()
OptionsClient == [NilClientOptions EXCEPT !.isNil = FALSE]
\* options.Client().SetMaxPoolSize(5).SetRetryWrites(false)
UserClientOptions ==
    [OptionsClient EXCEPT !.MaxPoolSize = <<5>>, !.RetryWrites = <<FALSE>>]

DefaultConfig ==
    [URI |-> "mongodb://localhost:27017", Database |-> "default",
     MaxPoolSize |-> 100, Timeout |-> 10, ClientOptions |-> NilClientOptions]

\* an Option is a function on *Config; it is kept as its name and argument
WithURI(uri) ==
    [name |-> "WithURI", str |-> uri, num |-> 0, co |-> NilClientOptions]
WithDatabase(database) ==
    [name |-> "WithDatabase", str |-> database, num |-> 0,
     co |-> NilClientOptions]
WithMaxPoolSize(size) ==
    [name |-> "WithMaxPoolSize", str |-> "", num |-> size,
     co |-> NilClientOptions]
WithTimeout(timeout) ==
    [name |-> "WithTimeout", str |-> "", num |-> timeout,
     co |-> NilClientOptions]
WithClientOptions(opts) ==
    [name |-> "WithClientOptions", str |-> "", num |-> 0, co |-> opts]

\* opt(&cfg)
ApplyOption(opt, c) ==
    CASE opt.name = "WithURI"           -> [c EXCEPT !.URI = opt.str]
      [] opt.name = "WithDatabase"      -> [c EXCEPT !.Database = opt.str]
      [] opt.name = "WithMaxPoolSize"   -> [c EXCEPT !.MaxPoolSize = opt.num]
      [] opt.name = "WithTimeout"       -> [c EXCEPT !.Timeout = opt.num]
      [] opt.name = "WithClientOptions" -> [c EXCEPT !.ClientOptions = opt.co]

\* for _, opt := range opts { opt(&cfg) }
RECURSIVE ApplyOptions(_, _)
ApplyOptions(c, opts) ==
    IF Len(opts) = 0 THEN c
    ELSE ApplyOptions(ApplyOption(Head(opts), c), Tail(opts))

\* validate that looks at Database first and takes a negative Timeout
validate_reordered(c) ==
    IF c.Database = "" THEN "Database"
    ELSE IF c.URI = "" THEN "URI"
    ELSE IF c.MaxPoolSize = 0 THEN "MaxPoolSize"
    ELSE IF c.Timeout = 0 THEN "Timeout"
    ELSE ""

\* Config.validate: "" for nil, else the Field of the ConfigError
validate(c) ==
    IF c.URI = "" THEN "URI"
    ELSE IF c.Database = "" THEN "Database"
    ELSE IF c.MaxPoolSize = 0 THEN "MaxPoolSize"
    ELSE IF c.Timeout <= 0 THEN "Timeout"
    ELSE ""

\* the driver options New connects with
ClientOptionsOf(c) ==
    LET base == IF ~c.ClientOptions.isNil THEN c.ClientOptions
                ELSE OptionsClient
    IN [base EXCEPT !.uri = c.URI,
                    !.MaxPoolSize = <<c.MaxPoolSize>>,
                    !.RetryWrites = <<TRUE>>,
                    !.RetryReads = <<TRUE>>]

NotRun ==
    [done |-> FALSE, err |-> "nil", field |-> "", connects |-> 0,
     driverOpts |-> NilClientOptions, config |-> DefaultConfig]

\* New(cfg, opts...); connectOk and pingOk are what mongo.Connect and Ping
\* answer
New(connectOk, pingOk) ==
    /\ ~newOut.done
    /\ LET cfg == newIn.cfg
           cfg2 == ApplyOptions(cfg, newIn.opts)
           clientOpts == ClientOptionsOf(cfg2)
       IN newOut' =
            IF validate(cfg) # ""
            THEN [NotRun EXCEPT !.done = TRUE, !.err = "ConfigError",
                                !.field = validate(cfg)]
            ELSE IF ~connectOk
            THEN [NotRun EXCEPT !.done = TRUE, !.err = "ConnectionError",
                                !.connects = 1, !.driverOpts = clientOpts]
            ELSE IF ~pingOk
            THEN [NotRun EXCEPT !.done = TRUE, !.err = "ConnectionError",
                                !.connects = 1, !.driverOpts = clientOpts]
            ELSE [NotRun EXCEPT !.done = TRUE, !.connects = 1,
                                !.driverOpts = clientOpts, !.config = cfg2]
    /\ UNCHANGED <<newIn, qbVars, ubVars, abVars, clVars, auxVars>>

ConfigInputs ==
    [URI : {"", "mongodb://a"}, Database : {"", "app"},
     MaxPoolSize : {0, 100}, Timeout : {-1, 0, 10},
     ClientOptions : {NilClientOptions}]

OptionInputs ==
    {WithURI(""), WithURI("mongodb://b"), WithDatabase(""),
     WithMaxPoolSize(0), WithMaxPoolSize(50), WithTimeout(0),
     WithClientOptions(UserClientOptions),
     WithClientOptions(NilClientOptions)}

OptionLists ==
    UNION {[1..n -> OptionInputs] : n \in 0..MaxOptions}

NextNew == \E connectOk \in BOOLEAN, pingOk \in BOOLEAN : New(connectOk, pingOk)

\* no call of New is under way
InitNoNew ==
    /\ newIn = [cfg |-> DefaultConfig, opts |-> <<>>]
    /\ newOut = [NotRun EXCEPT !.done = TRUE]

\* what a bson.D header denotes on the heap, nested []bson.D included
RECURSIVE DeepD(_, _, _)
DeepD(hE, hD, sl) ==
    [i \in 1..sl.len |->
        LET e == hE[sl.arr][i] IN
        [Key |-> e.Key,
         Value |-> IF e.Value.kind = "conds"
                   THEN [kind |-> "conds", m |-> {},
                         s |-> [j \in 1..e.Value.s.len |->
                                   DeepD(hE, hD, hD[e.Value.s.arr][j])]]
                   ELSE [kind |-> e.Value.kind, m |-> e.Value.m, s |-> <<>>]]]

IsPrefix(p, q) == Len(p) <= Len(q) /\ \A i \in 1..Len(p) : p[i] = q[i]

\* what one entry denotes
DeepE(hE, hD, e) ==
    [Key |-> e.Key,
     Value |-> IF e.Value.kind = "conds"
               THEN [kind |-> "conds", m |-> {},
                     s |-> [j \in 1..e.Value.s.len |->
                               DeepD(hE, hD, hD[e.Value.s.arr][j])]]
               ELSE [kind |-> e.Value.kind, m |-> e.Value.m, s |-> <<>>]]

\* the entry And/Or/Nor is asked to add for the filters of args
CondsOf(opkey, args) ==
    IF Len(args) = 0 THEN <<>>
    ELSE <<[Key |-> opkey,
            Value |-> [kind |-> "conds", m |-> {},
                       s |-> [i \in 1..Len(args) |->
                                 DeepD(heapE, heapD, qb[args[i]].filter)]]]>>

\* what a call was: kind is "cond" for Filter and its wrappers, "logical"
\* for And/Or/Nor, "conditions" for AndConditions/OrConditions/
\* NorConditions, "where" for Where, "sort" and "sortby" for Sort and
\* SortBy, "other" for the rest; opkey is the
\* operator key (the type of the expression for Where); args the variadic
\* arguments (the entries of the expression for Where)
NoQBCall == [kind |-> "none", opkey |-> "", args |-> <<>>]

\* no SortBy was called on the builder
NoSortBy == [done |-> FALSE, spec |-> 0, dropped |-> <<>>]

Noted(b, kind, opkey, args, added) ==
    /\ qbCall' = [kind |-> kind, opkey |-> opkey, args |-> args]
    /\ condLog' = [condLog EXCEPT ![b] = @ \o added]

NotedCond(b, key, value) ==
    Noted(b, "cond", "", <<>>, <<DeepE(heapE, heapD, BsonE(key, value))>>)

NotedOther(b) == Noted(b, "other", "", <<>>, <<>>)

\* ------------------------------------------------- QueryBuilder: the calls
QBCallable == ~panicked

QBReturn(st, b, chain) ==
    /\ heapE' = st.hE
    /\ heapD' = st.hD
    /\ qb' = st.qb
    /\ qbLast' = [recv |-> b, ret |-> IF chain THEN b ELSE NilBuilder,
                  chain |-> chain]
    /\ calls' = calls + 1
    /\ UNCHANGED <<panicked, ubVars, abVars, clVars, newVars, auxVars>>

QBPanic(b) ==
    /\ panicked' = TRUE
    /\ qbLast' = [recv |-> b, ret |-> NilBuilder, chain |-> TRUE]
    /\ calls' = calls + 1
    /\ UNCHANGED <<heapE, heapD, qb, sortLog, sortReset, condLog>>
    /\ UNCHANGED <<ubVars, abVars, clVars, newVars, auxVars>>

Filter(b, key, v) ==
    /\ QBCallable
    /\ QBReturn(QB_Filter(QBState, b, key, Scalar(v)), b, TRUE)
    /\ NotedCond(b, key, Scalar(v))
    /\ UNCHANGED <<sortLog, sortReset>>

Equals(b, key, v) ==
    /\ QBCallable
    /\ QBReturn(QB_Filter(QBState, b, key, Scalar(v)), b, TRUE)
    /\ NotedCond(b, key, Scalar(v))
    /\ UNCHANGED <<sortLog, sortReset>>

\* the single-operator wrappers: Filter(key, bson.M{op: value})
Compare(op, b, key, v) ==
    /\ QBCallable
    /\ QBReturn(QB_Filter(QBState, b, key, BsonM1(op, <<v>>)), b, TRUE)
    /\ NotedCond(b, key, BsonM1(op, <<v>>))
    /\ UNCHANGED <<sortLog, sortReset>>

NotEquals(b, key, v)          == Compare("$ne", b, key, v)
GreaterThan(b, key, v)        == Compare("$gt", b, key, v)
GreaterThanOrEqual(b, key, v) == Compare("$gte", b, key, v)
LessThan(b, key, v)           == Compare("$lt", b, key, v)
LessThanOrEqual(b, key, v)    == Compare("$lte", b, key, v)

In(b, key, values) ==
    /\ QBCallable
    /\ QBReturn(QB_Filter(QBState, b, key, BsonM1("$in", values)), b, TRUE)
    /\ NotedCond(b, key, BsonM1("$in", values))
    /\ UNCHANGED <<sortLog, sortReset>>

NotIn(b, key, values) ==
    /\ QBCallable
    /\ QBReturn(QB_Filter(QBState, b, key, BsonM1("$nin", values)), b, TRUE)
    /\ NotedCond(b, key, BsonM1("$nin", values))
    /\ UNCHANGED <<sortLog, sortReset>>

\* the bool of Exists is kept as 1 / 0
Exists(b, key, exists) ==
    /\ QBCallable
    /\ QBReturn(QB_Filter(QBState, b, key,
                          BsonM1("$exists", <<IF exists THEN 1 ELSE 0>>)), b, TRUE)
    /\ NotedCond(b, key, BsonM1("$exists", <<IF exists THEN 1 ELSE 0>>))
    /\ UNCHANGED <<sortLog, sortReset>>

Regex(b, key, pattern, options) ==
    /\ QBCallable
    /\ QBReturn(QB_Filter(QBState, b, key,
                          BsonM2("$regex", <<pattern>>, "$options", <<options>>)), b, TRUE)
    /\ NotedCond(b, key, BsonM2("$regex", <<pattern>>, "$options", <<options>>))
    /\ UNCHANGED <<sortLog, sortReset>>

\* And(c1, ..., cn) with ci == args[i].GetFilter()
LogicalCall(opkey, b, args) ==
    /\ QBCallable
    /\ LET v == Variadic(QBState, [i \in 1..Len(args) |->
                                        QB_GetFilter(QBState, args[i])])
       IN QBReturn(QB_Logical(v.st, b, opkey, v.slice), b, TRUE)
    /\ Noted(b, "logical", opkey, args, CondsOf(opkey, args))
    /\ UNCHANGED <<sortLog, sortReset>>

And(b, args) == LogicalCall("$and", b, args)
Or(b, args)  == LogicalCall("$or", b, args)
Nor(b, args) == LogicalCall("$nor", b, args)

ConditionsCall(opkey, b, refs) ==
    /\ QBCallable
    /\ IF DerefsNil(refs)
       THEN /\ QBPanic(b)
            /\ qbCall' = [kind |-> "conditions", opkey |-> opkey, args |-> refs]
       ELSE /\ QBReturn(QB_Conditions(QBState, b, opkey, refs), b, TRUE)
            /\ Noted(b, "conditions", opkey, refs, CondsOf(opkey, refs))
            /\ UNCHANGED <<sortLog, sortReset>>

AndConditions(b, refs) == ConditionsCall("$and", b, refs)
OrConditions(b, refs)  == ConditionsCall("$or", b, refs)
NorConditions(b, refs) == ConditionsCall("$nor", b, refs)

\* the orders in which ranging over a map can yield its entries
Orders(es) ==
    {o \in [1..Cardinality(es) -> es] :
        \A i, j \in 1..Cardinality(es) : i # j => o[i] # o[j]}

AsBsonE(es) == [i \in 1..Len(es) |-> BsonE(es[i].Key, Scalar(es[i].Value))]

\* the entries of a bson.M, listed in one fixed order
Listed(es) == CHOOSE o \in Orders(es) : TRUE

\* what the entries of an expression denote
Denoted(es) ==
    [i \in 1..Len(es) |-> DeepE(heapE, heapD, AsBsonE(es)[i])]

Where(b, expr) ==
    /\ QBCallable
    /\ IF expr.type = "M"
       THEN \E ord \in Orders(expr.es) :
                /\ QBReturn(QB_Where(QBState, b, expr, AsBsonE(ord)), b, TRUE)
                /\ Noted(b, "where", "M", Listed(expr.es), Denoted(ord))
       ELSE /\ QBReturn(QB_Where(QBState, b,
                                 [expr EXCEPT !.es = AsBsonE(expr.es)], <<>>),
                        b, TRUE)
            /\ Noted(b, "where", expr.type, expr.es,
                     IF expr.type \in {"D", "E"} THEN Denoted(expr.es)
                     ELSE <<>>)
    /\ UNCHANGED <<sortLog, sortReset>>

Limit(b, n) ==
    /\ QBCallable
    /\ QBReturn(QB_Limit(QBState, b, n), b, TRUE)
    /\ NotedOther(b)
    /\ UNCHANGED <<sortLog, sortReset>>

Skip(b, n) ==
    /\ QBCallable
    /\ QBReturn(QB_Skip(QBState, b, n), b, TRUE)
    /\ NotedOther(b)
    /\ UNCHANGED <<sortLog, sortReset>>

Sort(b, field, ascending) ==
    /\ QBCallable
    /\ QBReturn(QB_Sort(QBState, b, field, ascending), b, TRUE)
    /\ Noted(b, "sort", "", <<>>, <<>>)
    /\ UNCHANGED sortReset
    /\ sortLog' = [sortLog EXCEPT ![b] =
                        Append(@, [field |-> field, ascending |-> ascending])]

SortBy(b, sort) ==
    /\ QBCallable
    /\ QBReturn(QB_SortBy(QBState, b, sort), b, TRUE)
    /\ Noted(b, "sortby", "", <<>>, <<>>)
    /\ sortLog' = [sortLog EXCEPT ![b] = <<>>]
    /\ sortReset' = [sortReset EXCEPT ![b] =
                        [done |-> TRUE, spec |-> sort, dropped |-> sortLog[b]]]

Project(b, projection) ==
    /\ QBCallable
    /\ QBReturn(QB_Project(QBState, b, projection), b, TRUE)
    /\ NotedOther(b)
    /\ UNCHANGED <<sortLog, sortReset>>

GetFilter(b) ==
    /\ QBCallable
    /\ QBReturn(QBState, b, FALSE)
    /\ NotedOther(b)
    /\ UNCHANGED <<sortLog, sortReset>>

Build(b) ==
    /\ QBCallable
    /\ QBReturn(QBState, b, FALSE)
    /\ NotedOther(b)
    /\ UNCHANGED <<sortLog, sortReset>>

\* ------------------------------------------------ context.go: EnsureTimeout
\* A context is [deadline, parent, cancelled]: what ctx.Deadline() reports
\* (NoDeadline for ok = false), the context it was derived from, and whether
\* it was cancelled.  Times and durations are in clock ticks.
NoDeadline == -1
NoContext  == 0
NoopCancel == 0       \* the cancel function func() {}
Timeouts   == {1, 2}  \* values of Config.Timeout
Background == [deadline |-> NoDeadline, parent |-> NoContext,
               cancelled |-> FALSE]

\* the contexts a caller holds before it calls the Client: Background, a
\* cancellable child of it, and children with a deadline
CallerContexts ==
    <<Background,
      [deadline |-> NoDeadline, parent |-> 1, cancelled |-> FALSE],
      [deadline |-> 1, parent |-> 1, cancelled |-> FALSE],
      [deadline |-> 3, parent |-> 2, cancelled |-> FALSE]>>

\* context.WithTimeout(parent, d) of the standard library: a new child whose
\* deadline is at + d, unless the parent's own deadline is earlier; the
\* returned cancel function cancels the child
ContextWithTimeout(ctxs, parent, at, d) ==
    LET cur == ctxs[parent].deadline
        dl  == IF cur # NoDeadline /\ cur < at + d THEN cur ELSE at + d
        child == [deadline |-> dl, parent |-> parent,
                  cancelled |-> ctxs[parent].cancelled]
    IN [ctxs |-> Append(ctxs, child), ctx |-> Len(ctxs) + 1,
        cancel |-> Len(ctxs) + 1]

\* EnsureTimeout without the test of the deadline
EnsureTimeout_always(ctxs, ctx, at, d) ==
    ContextWithTimeout(ctxs, ctx, at, d)

\* (c *Client) EnsureTimeout(ctx): d is c.config.Timeout, read under RLock
EnsureTimeout(ctxs, ctx, at, d) ==
    IF ctxs[ctx].deadline # NoDeadline
    THEN [ctxs |-> ctxs, ctx |-> ctx, cancel |-> NoopCancel]
    ELSE ContextWithTimeout(ctxs, ctx, at, d)

RECURSIVE DerivedFrom(_, _, _)
DerivedFrom(ctxs, c, root) ==
    IF c = root THEN TRUE
    ELSE IF c = NoContext THEN FALSE
    ELSE DerivedFrom(ctxs, ctxs[c].parent, root)

\* calling a cancel function: the no-op does nothing, the one of
\* context.WithTimeout cancels its context and the contexts derived from it
Cancel(ctxs, cancel) ==
    IF cancel = NoopCancel THEN ctxs
    ELSE [c \in DOMAIN ctxs |->
            IF DerivedFrom(ctxs, c, cancel)
            THEN [ctxs[c] EXCEPT !.cancelled = TRUE] ELSE ctxs[c]]

\* a call of EnsureTimeout on a context the caller holds or was handed
CallEnsureTimeout(c) ==
    /\ Len(ctxLog) < MaxCtxCalls
    /\ c \in DOMAIN contexts
    /\ LET r == EnsureTimeout(contexts, c, now, cfgTimeout)
       IN /\ contexts' = r.ctxs
          /\ ctxLog' = Append(ctxLog,
                [given |-> c, before |-> contexts[c], at |-> now,
                 ctx |-> r.ctx, cancel |-> r.cancel, cancelCalled |-> FALSE])
    /\ UNCHANGED <<now, cfgTimeout, idVars, qbVars, ubVars, abVars, clVars,
                   newVars>>

\* the caller runs the cancel function a call returned (defer cancel())
CallCancel(i) ==
    /\ i \in DOMAIN ctxLog
    /\ ~ctxLog[i].cancelCalled
    /\ contexts' = Cancel(contexts, ctxLog[i].cancel)
    /\ ctxLog' = [ctxLog EXCEPT ![i].cancelCalled = TRUE]
    /\ UNCHANGED <<now, cfgTimeout, idVars, qbVars, ubVars, abVars, clVars,
                   newVars>>

\* time passes
Tick ==
    /\ now < MaxTime
    /\ now' = now + 1
    /\ UNCHANGED <<contexts, cfgTimeout, ctxLog, idVars, qbVars, ubVars, abVars,
                   clVars, newVars>>

NextCtx ==
    \/ \E c \in 1..(Len(CallerContexts) + MaxCtxCalls) : CallEnsureTimeout(c)
    \/ \E i \in 1..MaxCtxCalls : CallCancel(i)
    \/ Tick

InitContexts ==
    /\ contexts = CallerContexts
    /\ now = 0
    /\ cfgTimeout = DefaultConfig.Timeout
    /\ ctxLog = <<>>

\* ------------------------------------- operations.go: the ...ByID methods
\* An error value is [type, Op, Cause]: nil, a sentinel made by errors.New
\* (Cause is its message) or an *OperationError (Cause is the message of the
\* error it wraps; Unwrap returns that error).
NilErr == [type |-> "nil", Op |-> "", Cause |-> ""]
ErrorsNew(msg) == [type |-> "errorString", Op |-> "", Cause |-> msg]
ErrNoDocuments       == ErrorsNew("mongo: no documents in result")
ErrClientClosed      == ErrorsNew("mongo: client is closed")
ErrInvalidIndexValue == ErrorsNew("invalid index value")
ErrInvalidHex        == ErrorsNew("not a valid ObjectID")
ErrZeroObjectID      == ErrorsNew("ObjectID cannot be zero")
ErrDriver            == ErrorsNew("server selection error")

newOperationError(operation, cause) ==
    [type |-> "OperationError", Op |-> operation, Cause |-> cause.Cause]

\* errors.Is(err, target) for a sentinel target: err itself or what it wraps
ErrorsIs(err, target) ==
    \/ err = target
    \/ err.type = "OperationError" /\ ErrorsNew(err.Cause) = target

\* An ObjectID is a sequence of ObjectIDHexLen hex digit values (24 in the
\* driver, fewer here); a string is a sequence of characters.
ObjectIDHexLen == 2
HexDigits == {"0", "f"}
IdChars   == HexDigits \cup {"z"}
HexVal(ch) == IF ch = "0" THEN 0 ELSE 15
NilObjectID == [i \in 1..ObjectIDHexLen |-> 0]
IsZero(oid) == oid = NilObjectID

\* primitive.ObjectIDFromHex(s)
ObjectIDFromHex(s) ==
    IF Len(s) # ObjectIDHexLen \/ \E i \in DOMAIN s : s[i] \notin HexDigits
    THEN [objID |-> NilObjectID, err |-> ErrInvalidHex]
    ELSE [objID |-> [i \in 1..ObjectIDHexLen |-> HexVal(s[i])],
          err |-> NilErr]

\* the values passed as id (an any): strings, ObjectIDs, other types
IdStrings == UNION {[1..n -> IdChars] : n \in 0..(ObjectIDHexLen + 1)}
IdValue(type, str, oid) == [type |-> type, str |-> str, oid |-> oid]
IdInputs ==
    {IdValue("string", str, <<>>) : str \in IdStrings}
    \cup {IdValue("ObjectID", <<>>, oid) :
            oid \in [1..ObjectIDHexLen -> {0, 15}]}
    \cup {IdValue("int", <<>>, <<>>), IdValue("nil", <<>>, <<>>)}

\* convertToObjectID that lets the zero ObjectID through
convertToObjectID_anyoid(id, operation) ==
    CASE id.type = "string" ->
            LET r == ObjectIDFromHex(id.str)
            IN IF r.err # NilErr
               THEN [objID |-> NilObjectID,
                     err |-> newOperationError(operation, r.err)]
               ELSE r
      [] id.type = "ObjectID" -> [objID |-> id.oid, err |-> NilErr]
      [] OTHER -> [objID |-> NilObjectID,
                   err |-> newOperationError(operation, ErrInvalidIndexValue)]

\* convertToObjectID(id, operation); FindByID, UpdateByID and DeleteByID of
\* the Client have the same type switch inline
convertToObjectID(id, operation) ==
    CASE id.type = "string" ->
            LET r == ObjectIDFromHex(id.str)
            IN IF r.err # NilErr
               THEN [objID |-> NilObjectID,
                     err |-> newOperationError(operation, r.err)]
               ELSE r
      [] id.type = "ObjectID" ->
            IF IsZero(id.oid)
            THEN [objID |-> NilObjectID,
                  err |-> newOperationError(operation, ErrZeroObjectID)]
            ELSE [objID |-> id.oid, err |-> NilErr]
      [] OTHER -> [objID |-> NilObjectID,
                   err |-> newOperationError(operation, ErrInvalidIndexValue)]

\* what the driver call of an operation comes back with
FindOutcomes  == {"ok", "ErrNoDocuments", "error"}
WriteOutcomes == {"ok", "error"}

\* the result of a Client method: its error, whether the driver was invoked
\* and with which _id
Result(err, invoked, objID) ==
    [err |-> err, invoked |-> invoked, objID |-> objID]

\* findOne: RLock, checkState, coll.FindOne(...).Decode(result); the error
\* ErrNoDocuments is returned as it is, any other is wrapped
findOne(objID, outcome) ==
    IF checkState # "nil" THEN Result(ErrClientClosed, FALSE, NilObjectID)
    ELSE CASE outcome = "ok" -> Result(NilErr, TRUE, objID)
           [] outcome = "ErrNoDocuments" ->
                IF ErrorsIs(ErrNoDocuments, ErrNoDocuments)
                THEN Result(ErrNoDocuments, TRUE, objID)
                ELSE Result(newOperationError("find one", ErrNoDocuments),
                            TRUE, objID)
           [] OTHER -> Result(newOperationError("find one", ErrDriver),
                              TRUE, objID)

\* updateOne and deleteOne: RLock, checkState, the driver call
writeOne(operation, objID, outcome) ==
    IF checkState # "nil" THEN Result(ErrClientClosed, FALSE, NilObjectID)
    ELSE IF outcome = "ok" THEN Result(NilErr, TRUE, objID)
    ELSE Result(newOperationError(operation, ErrDriver), TRUE, objID)

findByID(id, outcome) ==
    LET c == convertToObjectID(id, "find by id")
    IN IF c.err # NilErr THEN Result(c.err, FALSE, NilObjectID)
       ELSE findOne(c.objID, outcome)

updateByID(id, outcome) ==
    LET c == convertToObjectID(id, "update by id")
    IN IF c.err # NilErr THEN Result(c.err, FALSE, NilObjectID)
       ELSE writeOne("update one", c.objID, outcome)

deleteByID(id, outcome) ==
    LET c == convertToObjectID(id, "delete by id")
    IN IF c.err # NilErr THEN Result(c.err, FALSE, NilObjectID)
       ELSE writeOne("delete one", c.objID, outcome)

\* ExistsByID that takes every error for "not found"
ExistsByID_anyerr(id, outcome) ==
    LET r == findByID(id, outcome)
    IN IF r.err # NilErr THEN [exists |-> FALSE, err |-> NilErr, find |-> r]
       ELSE [exists |-> TRUE, err |-> NilErr, find |-> r]

\* (r *Repository[T]) ExistsByID(ctx, id), through Repository.FindByID
ExistsByID(id, outcome) ==
    LET r == findByID(id, outcome)
    IN IF ErrorsIs(r.err, ErrNoDocuments)
       THEN [exists |-> FALSE, err |-> NilErr, find |-> r]
       ELSE IF r.err # NilErr
       THEN [exists |-> FALSE, err |-> r.err, find |-> r]
       ELSE [exists |-> TRUE, err |-> NilErr, find |-> r]

NoIDCall == [op |-> "none", id |-> IdValue("nil", <<>>, <<>>),
             closed |-> FALSE, outcome |-> "ok",
             res |-> Result(NilErr, FALSE, NilObjectID),
             exists |-> FALSE, err |-> NilErr]

\* a call of a ...ByID method while no Close is under way; the whole call is
\* one step, the read lock is taken and released within it
IDCall(op, id, outcome, r, exists, err) ==
    /\ idCalls < MaxIDCalls
    /\ wHolder = NoThread
    /\ idCalls' = idCalls + 1
    /\ idCall' = [op |-> op, id |-> id, closed |-> closed,
                  outcome |-> outcome, res |-> r, exists |-> exists,
                  err |-> err]
    /\ UNCHANGED <<ctxVars, qbVars, ubVars, abVars, clVars, newVars>>

FindByID(id, outcome) ==
    LET r == findByID(id, outcome)
    IN IDCall("FindByID", id, outcome, r, FALSE, r.err)

UpdateByID(id, outcome) ==
    LET r == updateByID(id, outcome)
    IN IDCall("UpdateByID", id, outcome, r, FALSE, r.err)

DeleteByID(id, outcome) ==
    LET r == deleteByID(id, outcome)
    IN IDCall("DeleteByID", id, outcome, r, FALSE, r.err)

CallExistsByID(id, outcome) ==
    LET e == ExistsByID(id, outcome)
    IN IDCall("ExistsByID", id, outcome, e.find, e.exists, e.err)

NextByID ==
    \E id \in IdInputs :
        \/ \E outcome \in FindOutcomes : FindByID(id, outcome)
        \/ \E outcome \in WriteOutcomes : UpdateByID(id, outcome)
        \/ \E outcome \in WriteOutcomes : DeleteByID(id, outcome)
        \/ \E outcome \in FindOutcomes : CallExistsByID(id, outcome)

InitByID ==
    /\ idCall = NoIDCall
    /\ idCalls = 0

InitBuilders ==
    /\ heapE = <<>>
    /\ heapD = <<>>
    /\ qb = [b \in Builders |-> NewQueryBuilder]
    /\ qbLast = [recv |-> NilBuilder, ret |-> NilBuilder, chain |-> FALSE]
    /\ sortLog = [b \in Builders |-> <<>>]
    /\ sortReset = [b \in Builders |-> NoSortBy]
    /\ panicked = FALSE
    /\ calls = 0
    /\ qbCall = NoQBCall
    /\ condLog = [b \in Builders |-> <<>>]
    /\ heapU = <<>>
    /\ heapM = <<>>
    /\ update = NewUpdateBuilder
    /\ lastWrite = [o \in Operators |-> [k \in {} |-> NoWrite]]
    /\ pushLog = [k \in Keys |-> <<>>]
    /\ ubCalls = 0
    /\ firstUse = <<>>
    /\ built = NoBuilt
    /\ heapP = <<>>
    /\ pipeline = NewAggregationBuilder
    /\ abLog = <<>>

Init == InitBuilders /\ InitClient /\ InitNoNew /\ InitContexts /\ InitByID

NextQB ==
    /\ calls < MaxCalls
    /\ \E b \in Builders :
           \/ \E key \in Keys, v \in Vals : Filter(b, key, v)
           \/ \E key \in CmpKeys, v \in CmpVals : Equals(b, key, v)
           \/ \E key \in CmpKeys, v \in CmpVals : NotEquals(b, key, v)
           \/ \E key \in CmpKeys, v \in CmpVals : GreaterThan(b, key, v)
           \/ \E key \in CmpKeys, v \in CmpVals : GreaterThanOrEqual(b, key, v)
           \/ \E key \in CmpKeys, v \in CmpVals : LessThan(b, key, v)
           \/ \E key \in CmpKeys, v \in CmpVals : LessThanOrEqual(b, key, v)
           \/ \E key \in CmpKeys, values \in InLists : In(b, key, values)
           \/ \E key \in CmpKeys, values \in InLists : NotIn(b, key, values)
           \/ \E key \in CmpKeys, exists \in BOOLEAN : Exists(b, key, exists)
           \/ \E key \in CmpKeys, v \in CmpVals : Regex(b, key, v, v)
           \/ \E args \in CondArgs : And(b, args)
           \/ \E args \in FewCondArgs : Or(b, args)
           \/ \E args \in FewCondArgs : Nor(b, args)
           \/ \E refs \in BuilderArgs : AndConditions(b, refs)
           \/ \E refs \in FewBuilderArgs : OrConditions(b, refs)
           \/ \E refs \in FewBuilderArgs : NorConditions(b, refs)
           \/ \E expr \in WhereArgs : Where(b, expr)
           \/ \E n \in Vals : Limit(b, n)
           \/ \E n \in CmpVals : Skip(b, n)
           \/ \E key \in Keys, asc \in BOOLEAN : Sort(b, key, asc)
           \/ \E sort \in CmpVals : SortBy(b, sort)
           \/ \E p \in CmpVals : Project(b, p)
           \/ GetFilter(b)
           \/ Build(b)

SpecQB == Init /\ [][NextQB]_vars

\* Composition of filters, explored one call deeper: the methods that
\* write the condition list (the wrappers all go through Filter;
\* GreaterThan stands for them), with Sort and Limit beside them
ComposeArgs == {<<1>>, <<2>>, <<1, 2>>}
ComposeWhere == {e \in WhereArgs : e.type \in {"D", "E"} /\ Len(e.es) > 0}

NextCompose ==
    /\ calls < MaxComposeCalls
    /\ \E b \in Builders :
           \/ \E key \in Keys : Filter(b, key, 1)
           \/ \E key \in CmpKeys : GreaterThan(b, key, 2)
           \/ \E expr \in ComposeWhere : Where(b, expr)
           \/ \E refs \in ComposeArgs : AndConditions(b, refs)
           \/ OrConditions(b, <<1, 2>>)
           \/ NorConditions(b, <<2, 1>>)
           \/ And(b, <<1, 2>>)
           \/ Sort(b, "a", TRUE)
           \/ Limit(b, 1)

SpecCompose == Init /\ [][NextCompose]_vars

\* ------------------------------------------------ QueryBuilder: properties
Composed(b) ==
    {i \in 1..qb[b].filter.len : heapE[qb[b].filter.arr][i].Value.kind = "conds"}

\* C5: no QueryBuilder call panics, and every chaining method returns the
\* builder it was called on
C5_QueryBuilderTotal ==
    /\ ~panicked
    /\ qbLast.chain => qbLast.ret = qbLast.recv

\* C7: a filter composed with AndConditions/OrConditions/NorConditions is a
\* snapshot: no call on another builder changes anything the composed
\* builder's condition list denotes, nested conditions included, and no call
\* at all changes the entries (and their nested conditions) already there
C7_ComposedIsSnapshot ==
    [][\A r \in Builders :
          Composed(r) # {} =>
            /\ IsPrefix(DeepD(heapE, heapD, qb[r].filter),
                        DeepD(heapE', heapD', qb'[r].filter))
            /\ qbLast'.recv # r =>
                  DeepD(heapE', heapD', qb'[r].filter)
                      = DeepD(heapE, heapD, qb[r].filter)]_vars

\* a builder holds a non-empty snapshot of another builder's filter, and
\* that builder's filter has grown since
C7_Witness ==
    \E r \in Builders : \E s \in Builders \ {r} : \E i \in Composed(r) :
        LET c == heapE[qb[r].filter.arr][i].Value.s IN
        \E j \in 1..c.len :
            LET snap == DeepD(heapE, heapD, heapD[c.arr][j]) IN
            /\ Len(snap) > 0
            /\ Len(snap) < qb[s].filter.len
            /\ IsPrefix(snap, DeepD(heapE, heapD, qb[s].filter))

\* C10: the options' sort is the sequence of all Sort calls since the last
\* SortBy, in call order, ascending as 1 and descending as -1
SortPairs(log) ==
    [i \in 1..Len(log) |->
        BsonE(log[i].field, Scalar(IF log[i].ascending THEN 1 ELSE -1))]

C10_SortAccumulates ==
    \A b \in Builders :
        Len(sortLog[b]) > 0 =>
            /\ qb[b].options.sort.kind = "D"
            /\ qb[b].options.sort.s.len = Len(sortLog[b])
            /\ [i \in 1..qb[b].options.sort.s.len |->
                    heapE[qb[b].options.sort.s.arr][i]] = SortPairs(sortLog[b])

C10_Witness ==
    \E b \in Builders :
        /\ Len(sortLog[b]) = 2
        /\ sortLog[b][1].ascending /\ ~sortLog[b][2].ascending
        /\ sortLog[b][1].field # sortLog[b][2].field
        /\ qb[b].options.sort.s.len = 2

\* the condition list of builder b as it stands, and after the step
Conditions(b) == DeepD(heapE, heapD, qb[b].filter)
ConditionsAfter(b) == DeepD(heapE', heapD', qb'[b].filter)

\* the call just made adds a condition: Filter, Equals, a wrapper, or
\* And/Or/Nor with at least one argument
AddsCondition(c) ==
    \/ c.kind = "cond"
    \/ c.kind = "logical" /\ Len(c.args) > 0

\* C12: a call that adds a condition appends exactly one entry, the one it
\* was called with, behind the entries already there, which keep value and
\* position, also when the field or operator key is already present; at
\* any time the condition list is the entries of the calls so far, in call
\* order
C12_ConditionsAppendOnly ==
    /\ [](\A b \in Builders : Conditions(b) = condLog[b])
    /\ [][AddsCondition(qbCall') =>
            LET r == qbLast'.recv IN
            /\ qb'[r].filter.len = qb[r].filter.len + 1
            /\ Len(condLog'[r]) = Len(condLog[r]) + 1
            /\ ConditionsAfter(r) =
                    Append(Conditions(r), condLog'[r][Len(condLog'[r])])
            /\ \A o \in Builders \ {r} : ConditionsAfter(o) = Conditions(o)]_vars

\* two conditions on one field, or two entries of one logical operator,
\* stand in one list
C12_Witness ==
    \E b \in Builders :
        /\ AddsCondition(qbCall)
        /\ qbLast.recv = b
        /\ qb[b].filter.len = 2
        /\ Conditions(b)[1].Key = Conditions(b)[2].Key
        /\ Conditions(b)[1] # Conditions(b)[2]

\* the call just made is one of those that have nothing to add: And/Or/
\* Nor/AndConditions/OrConditions/NorConditions without arguments, Where
\* with a value that is not a bson.M, bson.D or bson.E
AddsNothing(c) ==
    \/ c.kind \in {"logical", "conditions"} /\ Len(c.args) = 0
    \/ c.kind = "where" /\ c.opkey \notin {"M", "D", "E"}

\* C13: such a call leaves condition list, accumulated sort fields and
\* options of the builder as they were, whatever they were
C13_EmptyCallsChangeNothing ==
    [][AddsNothing(qbCall') =>
            /\ qb' = qb
            /\ heapE' = heapE
            /\ heapD' = heapD
            /\ ~panicked']_vars

\* such a call was made on a builder that has conditions
C13_Witness ==
    /\ AddsNothing(qbCall)
    /\ qbLast.recv \in Builders
    /\ qb[qbLast.recv].filter.len > 0

\* C14: AndConditions(qb1..qbn) leaves everything as And(qb1.GetFilter(),
\* ..., qbn.GetFilter()) would, and so do OrConditions and NorConditions
\* with Or and Nor; evaluating GetFilter on a nil builder panics in both
C14_ConditionsAsLogical ==
    [][qbCall'.kind = "conditions" =>
            LET r    == qbLast'.recv
                refs == qbCall'.args
            IN IF DerefsNil(refs)
               THEN panicked' /\ qb' = qb /\ heapE' = heapE /\ heapD' = heapD
               ELSE LET v == Variadic(QBState,
                                      [i \in 1..Len(refs) |->
                                            QB_GetFilter(QBState, refs[i])])
                        e == QB_Logical(v.st, r, qbCall'.opkey, v.slice)
                    IN /\ ~panicked'
                       /\ qb' = e.qb
                       /\ heapE' = e.hE
                       /\ heapD' = e.hD]_vars

\* a composition of two builders, one with conditions and one without
C14_Witness ==
    /\ qbCall.kind = "conditions"
    /\ ~panicked
    /\ Len(qbCall.args) = 2
    /\ \E i, j \in 1..2 :
            /\ qb[qbCall.args[i]].filter.len > 0
            /\ qb[qbCall.args[j]].filter.len = 0

\* C18: Where with a bson.M of k entries appends k entries, one per key
\* with the key's value, in some order; with a bson.D its elements in their
\* order; with a bson.E that one entry; the entries already there stay, and
\* stay ahead
C18_WhereShapes ==
    [][(qbCall'.kind = "where" /\ qbCall'.opkey \in {"M", "D", "E"}) =>
            LET r    == qbLast'.recv
                old  == Conditions(r)
                new  == ConditionsAfter(r)
                want == Denoted(qbCall'.args)
                k    == Len(want)
            IN /\ Len(new) = Len(old) + k
               /\ IsPrefix(old, new)
               /\ qbCall'.opkey = "E" => k = 1
               /\ IF qbCall'.opkey = "M"
                  THEN {new[Len(old) + i] : i \in 1..k} = {want[i] : i \in 1..k}
                  ELSE \A i \in 1..k : new[Len(old) + i] = want[i]]_vars

\* a bson.M of two entries was appended behind an earlier condition, in the
\* other order than the one the entries are listed in
C18_Witness ==
    /\ qbCall.kind = "where"
    /\ qbCall.opkey = "M"
    /\ Len(qbCall.args) = 2
    /\ qbLast.recv \in Builders
    /\ qb[qbLast.recv].filter.len = 3
    /\ Conditions(qbLast.recv)[2] = Denoted(qbCall.args)[2]
    /\ Conditions(qbLast.recv)[3] = Denoted(qbCall.args)[1]

\* Sorting, explored one call deeper: Sort and SortBy with the calls that
\* leave the sort alone
NextSort ==
    /\ calls < MaxSortCalls
    /\ \E b \in Builders :
           \/ \E key \in Keys, asc \in BOOLEAN : Sort(b, key, asc)
           \/ \E sort \in Vals : SortBy(b, sort)
           \/ Filter(b, "a", 1)
           \/ Limit(b, 1)
           \/ Build(b)

SpecSort == Init /\ [][NextSort]_vars

\* the entries a bson.D header holds
Entries(sl) == [i \in 1..sl.len |-> heapE[sl.arr][i]]

\* C11: SortBy resets the accumulation: right after SortBy(spec) the
\* options' sort is spec, and from then on the accumulated sort fields and
\* the options' sort hold the Sort calls made after the latest SortBy only,
\* none of those made before it
C11_SortByResets ==
    \A b \in Builders :
        sortReset[b].done =>
            /\ Entries(qb[b].sortFields) = SortPairs(sortLog[b])
            /\ IF Len(sortLog[b]) = 0
               THEN /\ qb[b].options.sort.kind = "custom"
                    /\ qb[b].options.sort.spec = sortReset[b].spec
               ELSE /\ qb[b].options.sort.kind = "D"
                    /\ Entries(qb[b].options.sort.s) = SortPairs(sortLog[b])

\* Sort on one field, then SortBy, then Sort on another field
C11_Witness ==
    \E b \in Builders :
        /\ sortReset[b].done
        /\ Len(sortReset[b].dropped) = 1
        /\ Len(sortLog[b]) = 1
        /\ sortReset[b].dropped[1].field # sortLog[b][1].field

\* ------------------------------------------------ UpdateBuilder: properties
NextUB ==
    /\ ubCalls < MaxUpdateCalls
    /\ \/ \E key \in Keys, v \in Vals : Set(key, IntV(v))
       \/ \E keys \in UnsetArgs : Unset(keys)
       \/ \E key \in Keys, v \in CmpVals : Inc(key, IntV(v))
       \/ \E key \in CmpKeys, v \in CmpVals : Mul(key, IntV(v))
       \/ \E key \in CmpKeys, v \in CmpVals : Min(key, IntV(v))
       \/ \E key \in CmpKeys, v \in CmpVals : Max(key, IntV(v))
       \/ \E key \in Keys, v \in Vals : Push(key, IntV(v))
       \/ \E key \in CmpKeys, v \in CmpVals : Pull(key, IntV(v))
       \/ \E key \in CmpKeys, v \in CmpVals : AddToSet(key, IntV(v))
       \/ \E key \in CmpKeys, first \in BOOLEAN : Pop(key, first)
       \/ \E key \in CmpKeys : CurrentDate(key)
       \/ \E key \in CmpKeys : Rename(key, "x")

SpecUB == Init /\ [][NextUB]_vars

\* what the document returned by Build() denotes: per entry the operator
\* and the contents of its map
BuiltDoc ==
    [i \in 1..UB_Build(UBState).len |->
        LET e == heapU[UB_Build(UBState).arr][i] IN
        [Key |-> e.Key, isM |-> e.isM, m |-> heapM[e.ref]]]

Called == {o \in Operators : DOMAIN lastWrite[o] # {}}

\* the place of operator o in the built document (0: it has no entry)
EntryOf(doc, o) ==
    IF \E i \in 1..Len(doc) : doc[i].Key = o
    THEN CHOOSE i \in 1..Len(doc) : doc[i].Key = o
    ELSE 0

BuiltDocAfter ==
    [i \in 1..update'.len |->
        LET e == heapU'[update'.arr][i] IN
        [Key |-> e.Key, isM |-> e.isM, m |-> heapM'[e.ref]]]

SameMap(f, g) ==
    /\ DOMAIN f = DOMAIN g
    /\ \A k \in DOMAIN f : f[k] = g[k]

\* C15: operators coexist: the built document has as many entries as
\* operators were called with a field, each entry's map has exactly the
\* fields passed to its operator, and a call leaves the entry of every
\* other operator where and as it was
C15_OperatorsCoexist ==
    /\ [](/\ Len(BuiltDoc) = Cardinality(Called)
          /\ \A o \in Called :
                /\ EntryOf(BuiltDoc, o) # 0
                /\ DOMAIN BuiltDoc[EntryOf(BuiltDoc, o)].m = DOMAIN lastWrite[o])
    /\ [][\A o \in Called :
            SameMap(lastWrite'[o], lastWrite[o]) =>
                /\ EntryOf(BuiltDocAfter, o) = EntryOf(BuiltDoc, o)
                /\ SameMap(BuiltDocAfter[EntryOf(BuiltDocAfter, o)].m,
                           BuiltDoc[EntryOf(BuiltDoc, o)].m)]_vars

\* three operators were called for the same field
C15_Witness ==
    \E k \in Keys :
        /\ Cardinality({o \in Called : k \in DOMAIN lastWrite[o]}) = 3
        /\ Len(BuiltDoc) = 3

\* C8: Push(f, v1).Push(f, v2) builds { $push: { f: { $each: [v1, v2] } } }:
\* every value pushed to a field is retained, in call order
C8_PushKeepsEveryValue ==
    \A k \in Keys :
        Len(pushLog[k]) >= 2 =>
            \E i \in 1..Len(BuiltDoc) :
                /\ BuiltDoc[i].Key = "$push"
                /\ k \in DOMAIN BuiltDoc[i].m
                /\ BuiltDoc[i].m[k] = EachV(pushLog[k])

\* C25: the entries of Build() are in the order in which their operators
\* were first passed to addOperator, and a call leaves every entry there
\* was at its place, with its operator
C25_OrderOfFirstUse ==
    /\ [](/\ Len(BuiltDoc) = Len(firstUse)
          /\ \A i \in 1..Len(BuiltDoc) : BuiltDoc[i].Key = firstUse[i])
    /\ [][/\ Len(BuiltDocAfter) >= Len(BuiltDoc)
          /\ \A i \in 1..Len(BuiltDoc) :
                BuiltDocAfter[i].Key = BuiltDoc[i].Key]_vars

\* two operators have entries, and the one first used was called again,
\* for another field, after the other one
C25_Witness ==
    /\ Len(BuiltDoc) = 2
    /\ ubCalls = 3
    /\ firstUse = <<"$inc", "$unset">>
    /\ DOMAIN BuiltDoc[1].m = Keys
    /\ Cardinality(DOMAIN BuiltDoc[2].m) = 1

\* the UpdateBuilder with a caller that keeps a result of Build()
NextBuild ==
    /\ ubCalls < MaxBuildCalls
    /\ \/ \E key \in Keys, v \in Vals : Set(key, IntV(v))
       \/ \E key \in Keys, v \in CmpVals : Inc(key, IntV(v))
       \/ \E key \in Keys, v \in Vals : Push(key, IntV(v))
       \/ \E keys \in UnsetArgs : Unset(keys)
       \/ BuildUpdate

SpecBuild == Init /\ [][NextBuild]_vars

\* C27: a document obtained from Build() denotes, after any later calls on
\* the builder, the entries and field maps it denoted when it was returned
C27_BuiltDocIsStable ==
    built.taken => DocOf(heapU, heapM, built.doc) = built.was

\* ------------------------------------------- AggregationBuilder: properties
NextAgg ==
    /\ Len(abLog) < MaxStageCalls
    /\ \/ \E filter \in Vals : AB_Match(filter)
       \/ \E id \in Vals, fields \in GroupFields : AB_Group(id, fields)
       \/ \E sort \in CmpVals : AB_Sort(sort)
       \/ \E limit \in CmpVals : AB_Limit(limit)
       \/ \E skip \in CmpVals : AB_Skip(skip)
       \/ \E projection \in CmpVals : AB_Project(projection)
       \/ \E path \in CmpVals : AB_Unwind(path)
       \/ \E from \in Vals : AB_Lookup(from, 1, 2, 1)
       \/ \E stage \in StageArgs : AB_AddStage(stage)

SpecAgg == Init /\ [][NextAgg]_vars

\* what Build() returns: the stages the pipeline header denotes
BuiltPipeline ==
    [i \in 1..AB_Build(ABState).len |-> heapP[AB_Build(ABState).arr][i]]

\* C16: after n calls Build() returns n stages, the i-th being the stage
\* the i-th call built: no call merges with, replaces, reorders or removes
\* an earlier stage, repeated calls of one stage kind included
C16_OneStagePerCall ==
    /\ Len(BuiltPipeline) = Len(abLog)
    /\ \A i \in 1..Len(abLog) : BuiltPipeline[i] = abLog[i].stage

\* the same method was called twice with different arguments, another
\* method between the two calls
C16_Witness ==
    /\ Len(abLog) = 3
    /\ abLog[1].method = abLog[3].method
    /\ abLog[1].method # abLog[2].method
    /\ abLog[1].method # "AddStage"
    /\ abLog[1].stage # abLog[3].stage

\* C17: every element of the pipeline Build() returns is a stage document
\* with exactly one key, AddStage with any stage included
C17_SingleKeyStages ==
    \A i \in 1..Len(BuiltPipeline) : Len(BuiltPipeline[i]) = 1

\* the keys of a bson.M
KeysOf(m) == {p[1] : p \in m}

\* C19: Group(id, fields) appends one $group stage whose document has every
\* key of fields with its value, and the key _id; _id is id unless fields
\* has the key _id, whose value then takes the place of id
C19_GroupDocument ==
    \A i \in 1..Len(abLog) :
        abLog[i].method = "Group" =>
            LET id     == abLog[i].args[1]
                fields == abLog[i].fields
                stage  == BuiltPipeline[i]
            IN /\ Len(stage) = 1
               /\ stage[1].Key = "$group"
               /\ stage[1].Value.kind = "M"
               /\ LET doc == stage[1].Value.m
                  IN /\ KeysOf(doc) = KeysOf(fields) \cup {"_id"}
                     /\ Cardinality(doc) = Cardinality(KeysOf(doc))
                     /\ fields \subseteq doc
                     /\ "_id" \notin KeysOf(fields) => <<"_id", id>> \in doc

\* Group was called with fields that have the key _id, with another value
\* than the id
C19_Witness ==
    \E i \in 1..Len(abLog) :
        /\ abLog[i].method = "Group"
        /\ \E p \in abLog[i].fields : p[1] = "_id" /\ p[2] # abLog[i].args[1]
        /\ Len(BuiltPipeline) >= i

\* ------------------------------------------------------- Client: properties
SpecClient == Init /\ [][NextClient]_vars

\* a goroutine that can run does run
FairSpecClient == SpecClient /\ \A t \in Threads : WF_vars(Step(t))

Returned(t) == pc[t] = "idle" /\ call[t].op # "none"

\* C2: the driver's Disconnect is invoked at most once, and every Close
\* call other than the one that disconnects returns nil
C2_DisconnectOnce ==
    /\ disconnects <= 1
    /\ Cardinality({t \in Threads : call[t].disconnected}) <= 1
    /\ \A t \in Threads :
          (Returned(t) /\ call[t].op = "Close" /\ ~call[t].disconnected)
              => call[t].result = "nil"

\* two Close calls have returned, one of them without disconnecting
C2_Witness ==
    /\ closeReturned >= 2
    /\ disconnects = 1
    /\ \E t \in Threads :
          Returned(t) /\ call[t].op = "Close" /\ ~call[t].disconnected

\* C3: once a Close has returned the client stays closed, and every
\* operation called after that returns ErrClientClosed without a driver call
C3_ClosedForGood ==
    /\ closeReturned > 0 => closed
    /\ \A t \in Threads :
          (call[t].afterClose /\ call[t].op # "Close") =>
              /\ ~call[t].invoked
              /\ Returned(t) => call[t].result = "ErrClientClosed"

\* an operation called after Close returned has itself returned
C3_Witness ==
    \E t \in Threads :
        /\ call[t].afterClose
        /\ call[t].op \in CheckedOps \cup {"DropDatabase"}
        /\ Returned(t)
        /\ call[t].result = "ErrClientClosed"

\* C4: every call on the Client eventually returns, whatever runs beside it
C4_EveryCallReturns ==
    \A t \in Threads : (pc[t] # "idle") ~> (pc[t] = "idle")

\* goroutines that call WithTransaction and Close, and nothing else
SpecTx == Init /\ [][NextTx]_vars
FairSpecTx == SpecTx /\ \A t \in Threads : WF_vars(CloseStep(t) \/ TxStep(t))

\* C24: a WithTransaction call whose callback calls InsertOne on the same
\* Client eventually returns, also when Close is called while it runs
C24_TransactionReturns ==
    \A t \in Threads :
        (call[t].op = "WithTransaction" /\ pc[t] # "idle")
            ~> (pc[t] = "idle")

\* t is between the closed check of its operation and the return of the
\* operation's driver call
InFlight(t) ==
    pc[t] \in {"Op.Driver", "GetDatabase.RLock", "GetDatabase.Return",
               "Drop.Driver", "Tx.Insert.RLock", "Tx.Insert.Check",
               "Tx.Insert.Driver", "Tx.End"}

\* while Disconnect runs no operation is in flight
NoDisconnectInFlight ==
    \A t \in Threads :
        pc[t] = "Close.Disconnect" =>
            \A u \in Threads \ {t} : ~InFlight(u)

\* a closed check made when c.closed is set ends the operation with
\* ErrClientClosed, the driver not called
ChecksObserveClosed ==
    \A t \in Threads :
        (/\ closed
         /\ pc[t] \in {"Op.Check", "Drop.Check", "Tx.Check"}
         /\ pc'[t] # pc[t])
        => /\ pc'[t] = "idle"
           /\ call'[t].result = "ErrClientClosed"
           /\ ~call'[t].invoked

\* C26: the driver's Disconnect is never running while a state-checked
\* operation is between its closed check and the return of its driver
\* call, and every operation whose closed check is made after Close set the
\* flag returns ErrClientClosed
C26_CloseWaitsForOperations ==
    [](NoDisconnectInFlight) /\ [][ChecksObserveClosed]_vars

\* a Close has disconnected and returned; an operation that was in flight
\* has returned nil, and one called before Close returned got
\* ErrClientClosed
C26_Witness ==
    \E t, u, v \in Threads :
        /\ Returned(t) /\ call[t].op = "Close" /\ call[t].disconnected
        /\ Returned(u) /\ call[u].op # "Close" /\ call[u].invoked
        /\ call[u].result = "nil"
        /\ Returned(v) /\ call[v].op # "Close" /\ ~call[v].afterClose
        /\ call[v].result = "ErrClientClosed"

\* ---------------------------------------------------------- New: properties
InitNew ==
    /\ InitBuilders
    /\ InitClient
    /\ InitContexts
    /\ InitByID
    /\ newIn \in [cfg : ConfigInputs, opts : OptionLists]
    /\ newOut = NotRun

SpecNew == InitNew /\ [][NextNew]_vars

\* the configuration the client is created with
EffectiveConfig == ApplyOptions(newIn.cfg, newIn.opts)

\* C6: when the configuration after all options is invalid, New returns a
\* ConfigError and makes no connection attempt
C6_NewValidatesEffectiveConfig ==
    (newOut.done /\ validate(EffectiveConfig) # "") =>
        /\ newOut.err = "ConfigError"
        /\ newOut.connects = 0

\* C9: what WithClientOptions supplies overrides the basic options: a
\* MaxPoolSize or retry setting made on the ClientOptions is the one the
\* driver gets
C9_ClientOptionsOverride ==
    (newOut.done /\ newOut.connects > 0 /\ ~EffectiveConfig.ClientOptions.isNil) =>
        /\ EffectiveConfig.ClientOptions.MaxPoolSize # <<>> =>
              newOut.driverOpts.MaxPoolSize = EffectiveConfig.ClientOptions.MaxPoolSize
        /\ EffectiveConfig.ClientOptions.RetryWrites # <<>> =>
              newOut.driverOpts.RetryWrites = EffectiveConfig.ClientOptions.RetryWrites
        /\ EffectiveConfig.ClientOptions.RetryReads # <<>> =>
              newOut.driverOpts.RetryReads = EffectiveConfig.ClientOptions.RetryReads

\* the fields of a configuration that are not acceptable
Failing(c) ==
    {f \in {"URI", "Database", "MaxPoolSize", "Timeout"} :
        \/ f = "URI" /\ c.URI = ""
        \/ f = "Database" /\ c.Database = ""
        \/ f = "MaxPoolSize" /\ ~(c.MaxPoolSize > 0)
        \/ f = "Timeout" /\ ~(c.Timeout > 0)}

FieldOrder == <<"URI", "Database", "MaxPoolSize", "Timeout">>

\* C20: validation of the configuration New is given answers nil exactly
\* when URI and Database are non-empty and MaxPoolSize and Timeout are
\* greater than 0; otherwise it answers a ConfigError whose Field is the
\* first failing field in the order URI, Database, MaxPoolSize, Timeout
C20_ValidateFirstFailing ==
    newOut.done =>
        IF Failing(newIn.cfg) = {}
        THEN newOut.err # "ConfigError" /\ newOut.field = ""
        ELSE /\ newOut.err = "ConfigError"
             /\ \E i \in 1..Len(FieldOrder) :
                    /\ newOut.field = FieldOrder[i]
                    /\ FieldOrder[i] \in Failing(newIn.cfg)
                    /\ \A j \in 1..(i - 1) :
                            FieldOrder[j] \notin Failing(newIn.cfg)

\* a configuration with a valid URI, an empty Database and a negative
\* Timeout was rejected
C20_Witness ==
    /\ newOut.done
    /\ newOut.err = "ConfigError"
    /\ Failing(newIn.cfg) = {"Database", "Timeout"}
    /\ newIn.cfg.Timeout < 0

\* ------------------------------------------------ EnsureTimeout: properties
InitCtx ==
    /\ InitBuilders /\ InitClient /\ InitNoNew /\ InitByID
    /\ contexts = CallerContexts
    /\ now = 0
    /\ cfgTimeout \in Timeouts
    /\ ctxLog = <<>>

SpecCtx == InitCtx /\ [][NextCtx]_vars

\* what the logged calls returned
EnsureTimeoutResults ==
    \A i \in DOMAIN ctxLog :
        LET e == ctxLog[i]
        IN IF e.before.deadline # NoDeadline
           THEN /\ e.ctx = e.given
                /\ e.cancel = NoopCancel
                /\ contexts[e.given].deadline = e.before.deadline
           ELSE /\ e.ctx # e.given
                /\ e.ctx \notin DOMAIN CallerContexts
                /\ contexts[e.ctx].parent = e.given
                /\ contexts[e.ctx].deadline = e.at + cfgTimeout
                /\ contexts[e.given].deadline = NoDeadline

\* a call on a context with a deadline, and a call of the cancel function
\* such a call returned, change no context
EnsureTimeoutKeeps ==
    \A i \in DOMAIN ctxLog' :
        (/\ ctxLog'[i].before.deadline # NoDeadline
         /\ \/ i \notin DOMAIN ctxLog
            \/ ctxLog'[i].cancelCalled /\ ~ctxLog[i].cancelCalled)
        => contexts' = contexts

\* C21: a call of EnsureTimeout on a context that has a deadline returns
\* that context itself, and neither the call nor the cancel function it
\* returns changes the context's deadline or cancels it; a call on a context
\* without deadline returns a new child of it whose deadline is the time of
\* the call plus the configured Timeout
C21_EnsureTimeout ==
    [](EnsureTimeoutResults) /\ [][EnsureTimeoutKeeps]_vars

\* both cases have happened, the first on a context whose deadline had
\* passed, and both cancel functions have been called
C21_Witness ==
    /\ Len(ctxLog) >= 2
    /\ \E i, j \in DOMAIN ctxLog :
        /\ ctxLog[i].before.deadline # NoDeadline
        /\ ctxLog[i].before.deadline < ctxLog[i].at
        /\ ctxLog[i].cancelCalled
        /\ ctxLog[j].before.deadline = NoDeadline
        /\ ctxLog[j].at > 0
        /\ ctxLog[j].cancelCalled
        /\ contexts[ctxLog[j].ctx].cancelled

\* ----------------------------------------------- ...ByID: properties
InitByIDSpec ==
    /\ InitBuilders /\ InitNoNew /\ InitContexts /\ InitByID
    /\ pc = [t \in Threads |-> "idle"]
    /\ call = [t \in Threads |-> NoCall]
    /\ readers = [t \in Threads |-> 0]
    /\ wHolder = NoThread
    /\ closed \in BOOLEAN
    /\ disconnects = (IF closed THEN 1 ELSE 0)
    /\ closeReturned = (IF closed THEN 1 ELSE 0)
    /\ clCalls = (IF closed THEN 1 ELSE 0)

SpecByID == InitByIDSpec /\ [][NextByID]_vars

\* the id is a string that parses as a hex ObjectID, or an ObjectID that
\* is not the zero one
Acceptable(id) ==
    \/ /\ id.type = "string"
       /\ Len(id.str) = ObjectIDHexLen
       /\ \A i \in DOMAIN id.str : id.str[i] \in HexDigits
    \/ id.type = "ObjectID" /\ \E i \in DOMAIN id.oid : id.oid[i] # 0

ByIDOps == {"FindByID", "UpdateByID", "DeleteByID"}

\* C22: FindByID, UpdateByID and DeleteByID invoke the driver only for an
\* id that is a string parsing as a hex ObjectID or a non-zero ObjectID;
\* for every other id they return an OperationError and the driver is not
\* invoked; an acceptable id reaches the driver of an open client
C22_ByIDValidatesID ==
    idCall.op \in ByIDOps =>
        /\ idCall.res.invoked => Acceptable(idCall.id)
        /\ ~Acceptable(idCall.id) =>
               /\ idCall.err.type = "OperationError"
               /\ ~idCall.res.invoked
        /\ (Acceptable(idCall.id) /\ ~idCall.closed) => idCall.res.invoked

\* the zero ObjectID was refused, after a call with an accepted id
C22_Witness ==
    /\ idCalls = 2
    /\ idCall.op \in ByIDOps
    /\ idCall.id = IdValue("ObjectID", <<>>, NilObjectID)
    /\ idCall.err.type = "OperationError"
    /\ ~idCall.closed

\* C23: ExistsByID returns (true, nil) when the document is found,
\* (false, nil) exactly when the lookup reports mongo.ErrNoDocuments, which
\* findOne returns unwrapped, and (false, err) with the lookup's error for
\* every other failure
C23_ExistsByID ==
    idCall.op = "ExistsByID" =>
        LET look == idCall.res.err
        IN /\ look = NilErr => idCall.exists /\ idCall.err = NilErr
           /\ look = ErrNoDocuments => ~idCall.exists /\ idCall.err = NilErr
           /\ look \notin {NilErr, ErrNoDocuments} =>
                  ~idCall.exists /\ idCall.err = look
           /\ (~idCall.exists /\ idCall.err = NilErr) =>
                  look = ErrNoDocuments
           /\ (idCall.res.invoked /\ idCall.outcome = "ErrNoDocuments") =>
                  look = ErrNoDocuments
           /\ (idCall.res.invoked /\ idCall.outcome = "ok") => look = NilErr

\* ExistsByID returned (false, err) for a failure of the driver
C23_Witness ==
    /\ idCall.op = "ExistsByID"
    /\ idCall.res.invoked
    /\ idCall.outcome = "error"
    /\ ~idCall.exists
    /\ idCall.err = newOperationError("find one", ErrDriver)

====
